---- MODULE Spec2Model ----
(***************************************************************************)
(* A state-machine model of the Konnected Homebridge platform plugin:      *)
(* panel discovery and provisioning, the callback listening server, the    *)
(* runtime cache of zone states, the security system with its entry-delay  *)
(* timer, and the actuation of switch zones.                               *)
(*                                                                         *)
(* JavaScript values are encoded as follows.  A zone state is one of the   *)
(* strings "undefined", "n0", "n1" (the numbers 0 and 1), "false", "true"  *)
(* (the booleans).  The security system state is an integer 0..4, NoState  *)
(* when the property is undefined.  An absent numeric property is NoNum,   *)
(* an absent string property is "".  The UUID that hap.uuid.generate makes *)
(* of the string  short + '-' + zone  is the pair <<short, zone>>.         *)
(***************************************************************************)
EXTENDS Integers, Sequences, FiniteSets, TLC

\* ---------------------------------------------------------------- bounds
MaxTokens == 2          \* provisioning calls (tokens issued) per run
MaxZones == 2           \* zones per panel in the enumerated configurations

\* ------------------------------------------------------------- encodings
NoState == -1
NoNum == -1
UndefS == "undefined"

\* String(n) of a security system state
StringOf(n) ==
  CASE n = 0 -> "0" [] n = 1 -> "1" [] n = 2 -> "2" [] n = 3 -> "3"
    [] n = 4 -> "4" [] OTHER -> "undefined"

\* ------------------------------------------------------------- constants
\* ZONES: the capabilities of the zones of a Pro panel
ZONES(z) ==
  IF z \in {"1", "2", "3", "4", "5", "6", "7", "8"}
    THEN {"sensor", "beeper", "siren", "switch"}
  ELSE IF z \in {"9", "10", "11", "12"} THEN {"sensor"}
  ELSE IF z \in {"alarm1", "out1", "alarm2_out2"} THEN {"beeper", "siren", "switch"}
  ELSE {}

\* faulty variant: zone 6 shares pin 7 with zone 5
ZonesToPinsSharedPin(z) ==
  CASE z = "1" -> 1 [] z = "2" -> 2 [] z = "3" -> 5 [] z = "4" -> 6
    [] z = "5" -> 7 [] z = "6" -> 7 [] z = "out" -> 8 [] OTHER -> NoNum

\* ZONES_TO_PINS: the pin of a zone of a V1-V2 panel, NoNum when undefined
ZONES_TO_PINS(z) ==
  CASE z = "1" -> 1 [] z = "2" -> 2 [] z = "3" -> 5 [] z = "4" -> 6
    [] z = "5" -> 7 [] z = "6" -> 9 [] z = "out" -> 8 [] OTHER -> NoNum

V1ZoneNames == {"1", "2", "3", "4", "5", "6", "out"}

\* ZONE_TYPES
SensorTypes == {"contact", "motion", "glass", "water", "smoke"}
DhtTypes == {"humidtemp"}
Ds18b20Types == {"temperature"}
ActuatorTypes == {"beeper", "siren", "strobe", "switch"}
\* TYPES_TO_ACCESSORIES[type][0]: the HomeKit service of a zone type
ServiceOf(t) ==
  CASE t \in {"contact", "glass"} -> "ContactSensor"
    [] t = "motion" -> "MotionSensor"
    [] t = "water" -> "LeakSensor"
    [] t = "smoke" -> "SmokeSensor"
    [] t = "temperature" -> "TemperatureSensor"
    [] t = "humidtemp" -> "HumiditySensor"
    [] t \in ActuatorTypes -> "Switch"
    [] OTHER -> "SecuritySystem"

\* zoneNumber < 6 with JavaScript's string-to-number coercion
LessThan6(z) == z \in {"1", "2", "3", "4", "5"}

\* --------------------------------------------------------------- panels
Panels == {"v1", "pro"}

\* The status document of a panel and the UUID it announces.  A Pro panel
\* reports model and chipId, a V1-V2 panel reports neither.
PanelObject(p) ==
  IF p = "pro"
    THEN [ip |-> "ip-pro", port |-> 9124, mac |-> "c3d4", model |-> TRUE,
          chipId |-> TRUE, uuidLast |-> "9abd"]
    ELSE [ip |-> "ip-v1", port |-> 9123, mac |-> "a1b2", model |-> FALSE,
          chipId |-> FALSE, uuidLast |-> "9abc"]

\* panelShortUUID: last segment of the UUID when the panel has a chipId,
\* else the MAC address without colons
PanelShortUUID(p) ==
  IF PanelObject(p).chipId THEN PanelObject(p).uuidLast ELSE PanelObject(p).mac

ZoneUUID(p, z) == <<PanelShortUUID(p), z>>

\* The USN header of a discovery response: what precedes the UUID ('uuid:'
\* when the header has the expected form), the UUID, and what follows it
\* ('::' and the device URN).  The UUID of a panel is written as its name.
Usn(scheme, uuid, sep) == [scheme |-> scheme, uuid |-> uuid, sep |-> sep]
WellFormedUsn(p) == Usn("uuid:", p, "::")

\* USN.match(/^uuid:(.*)::.*$/i): does the header match?
UsnMatches(u) == u.scheme = "uuid:" /\ u.sep = "::"

\* match(...)[1] || '': the panel UUID the response handler works with
PanelUUID(u) == u.uuid

\* panelUUID.match(/([^-]+)$/i): is there a last segment?
HasLastSegment(uuid) == uuid # ""

\* ------------------------------------------------------- zone configuration
\* A zone of the plugin configuration.  enabled is "true", "false" or
\* "undefined"; trigger is "low", "high" or "undefined"; triggerableModes is
\* the set of mode strings ({} when not configured); pollInterval and the
\* pulse settings are 0 when not configured.
Zone(zn, zt, en, inv, beep, trig, modes, poll, dur, pause, rep) ==
  [zoneNumber |-> zn, zoneType |-> zt, enabled |-> en, invert |-> inv,
   audibleBeep |-> beep, trigger |-> trig, triggerableModes |-> modes,
   pollInterval |-> poll, pulseDuration |-> dur, pulsePause |-> pause,
   pulseRepeat |-> rep]

\* A sensor zone and a switch zone with the optional settings left out
SensorZone(zn, zt, inv, beep, modes) ==
  Zone(zn, zt, "true", inv, beep, UndefS, modes, 0, 0, 0, 0)
SwitchZone(zn, zt, trig) ==
  Zone(zn, zt, "true", FALSE, FALSE, trig, {}, 0, 0, 0, 0)

\* An element of a provisioning array: {pin?, zone?, trigger?, poll_interval?}
NoPanelZone == [pin |-> NoNum, zone |-> "", trigger |-> NoNum, poll_interval |-> NoNum]

\* Object.keys(panelZone).length > 0
NonEmptyPanelZone(pz) == pz # NoPanelZone

\* The pin or zone assignment of configureZones, with the warning it logs
\* ("" when none).  pro: 'model' in panelObject.
AssignPinOrZone(pro, z) ==
  IF pro
    THEN IF z.zoneNumber = "out"
           THEN [pz |-> NoPanelZone, warn |-> "invalid-zone"]
         ELSE IF z.zoneType \in ActuatorTypes
           THEN IF z.zoneType \in ZONES(z.zoneNumber)
                  THEN [pz |-> [NoPanelZone EXCEPT !.zone = z.zoneNumber], warn |-> ""]
                  ELSE [pz |-> NoPanelZone, warn |-> "invalid-actuator"]
         ELSE [pz |-> [NoPanelZone EXCEPT !.zone = z.zoneNumber], warn |-> ""]
    ELSE IF ZONES_TO_PINS(z.zoneNumber) # NoNum
           THEN IF z.zoneType \in ActuatorTypes
                  THEN IF LessThan6(z.zoneNumber) \/ z.zoneNumber = "out"
                         THEN [pz |-> [NoPanelZone EXCEPT !.pin = ZONES_TO_PINS(z.zoneNumber)],
                               warn |-> ""]
                         ELSE [pz |-> NoPanelZone, warn |-> "invalid-actuator"]
                  ELSE [pz |-> [NoPanelZone EXCEPT !.pin = ZONES_TO_PINS(z.zoneNumber)],
                        warn |-> ""]
           ELSE [pz |-> NoPanelZone, warn |-> "invalid-zone"]

\* The startup trigger value and the poll interval added to the element
WithTriggerAndPoll(pz, z) ==
  LET t == IF z.trigger # UndefS
             THEN [pz EXCEPT !.trigger = IF z.trigger = "low" THEN 0 ELSE 1]
             ELSE pz
  IN IF z.pollInterval # 0 THEN [t EXCEPT !.poll_interval = z.pollInterval] ELSE t

\* The element a configured zone contributes to the payload
PanelZoneOf(pro, z) == WithTriggerAndPoll(AssignPinOrZone(pro, z).pz, z)

\* The provisioning array a zone type goes to ("" for none)
BucketOf(t) ==
  IF t \in SensorTypes THEN "sensors"
  ELSE IF t \in DhtTypes THEN "dht_sensors"
  ELSE IF t \in Ds18b20Types THEN "ds18b20_sensors"
  ELSE IF t \in ActuatorTypes THEN "actuators"
  ELSE ""

\* Does the zones loop push this zone's element into a provisioning array?
PushesToPayload(pro, z) ==
  NonEmptyPanelZone(PanelZoneOf(pro, z)) /\ z.enabled = "true"

EmptyPayload ==
  [sensors |-> <<>>, dht_sensors |-> <<>>, ds18b20_sensors |-> <<>>, actuators |-> <<>>]

\* The previous state configureZones carries over from a restored accessory.
\* ctx is the accessory's context.device ([state, temp, humi]).
CarryOver(zobj, ctx) ==
  LET s == IF ctx.state # UndefS THEN [zobj EXCEPT !.state = ctx.state] ELSE zobj
      h == IF ctx.humi # NoNum THEN [s EXCEPT !.humi = ctx.humi] ELSE s
  IN IF ctx.temp # NoNum THEN [h EXCEPT !.humi = ctx.temp] ELSE h

\* The runtime cache record (zoneObject) of a configured zone
ZoneObject(p, z) ==
  [UUID |-> ZoneUUID(p, z.zoneNumber), enabled |-> z.enabled, type |-> z.zoneType,
   panel |-> p, zoneNumber |-> z.zoneNumber,
   invert |-> z.invert, audibleBeep |-> z.audibleBeep, trigger |-> z.trigger,
   triggerableModes |-> z.triggerableModes,
   state |-> UndefS, temp |-> NoNum, humi |-> NoNum]

\* ------------------------------------------------------------------ state
VARIABLES
  config,                       \* this.config.panels: panel -> sequence of zones
  accessories,                  \* this.accessories: restored zone UUID -> context.device
  ssRestored,                   \* is the security system among this.accessories?
  ssState,                      \* context.device.state of the security system
  validSecuritySystemStates,    \* the arming targets offered
  accessoriesRuntimeCache,      \* sequence of zone records
  entryTriggerDelayTimerHandle, \* "undefined", "pending" or "fired"
  entryTimers,                  \* number of entry-delay timers scheduled and not fired
  timersStarted,                \* entry-delay timers started since the last disarm
  armedAtStart,                 \* was the system armed when the pending timer started?
  listenerAuth,                 \* sequence of accepted bearer tokens
  provisioned,                  \* the settings payloads sent to panels, in order
  warnings,                     \* warnings logged by the last provisioning call
  ssdpDiscovering,              \* discovery-in-flight flag
  ssdpDiscoverAttempts,         \* empty discovery passes counted
  passes,                       \* search windows open: sequence of ssdpDeviceIDs
  fetching,                     \* panels whose status fetch has not resolved yet
  panelSettings,                \* panel -> the settings its status reports
  sent,                         \* actuation commands issued by the last step
  onPushed,                     \* On values pushed to HomeKit by the last step
  actuating,                    \* momentary commands whose PUT has not resolved yet
  resetTimers,                  \* momentary-reset timers scheduled and not fired
  answered,                     \* the actuation PUT that resolved in the last step
  request,                      \* the request the last step answered
  response,                     \* the HTTP response of the last step
  events,                       \* what the last step did about timers and discovery
  launched,                     \* has didFinishLaunching been handled?
  usn,                          \* panel -> the USN header of its discovery responses
  written,                      \* the uuid of every panel of config.json
  registered,                   \* UUIDs of the zone accessories registered with Homebridge
  got                           \* what the accessory getter of the last step returned

vars ==
  <<config, accessories, ssRestored, ssState, validSecuritySystemStates,
    accessoriesRuntimeCache, entryTriggerDelayTimerHandle, entryTimers,
    timersStarted, armedAtStart, listenerAuth, provisioned, warnings,
    ssdpDiscovering, ssdpDiscoverAttempts, passes, fetching, panelSettings,
    sent, onPushed, actuating, resetTimers, answered, request, response, events, launched,
    usn, written, registered, got>>

\* the in-flight momentary commands and their timers
pulseVars == <<actuating, resetTimers>>

\* variables set once by Init
constVars == <<config, accessories, ssRestored, validSecuritySystemStates, usn>>

\* this.listenerIP, this.listenerPort
ListenerIP == "ip-hb"
ListenerPort == 5000

\* panel settings reported by the status document
SettingsEmpty == [endpoint_type |-> "", ip |-> "", port |-> 0]
SettingsRest(ip, port) == [endpoint_type |-> "rest", ip |-> ip, port |-> port]
SettingsAws == [endpoint_type |-> "aws_iot", ip |-> "", port |-> 0]

\* An authorization header: the scheme ('Bearer ' or none) and what follows
\* it; NoAuth when the request has no such header
NoAuth == [scheme |-> "none", rest |-> 0]
\* no request; the response of a step that answers none
NoRequest ==
  [method |-> "", id |-> "", auth |-> NoAuth, pin |-> NoNum, zone |-> "",
   state |-> NoNum, temp |-> NoNum, humi |-> NoNum]
NoResponse == [status |-> 0, reason |-> "", pin |-> NoNum, zone |-> "", state |-> NoNum]

\* no getter was called; a getter returns a state (state) or a number (num)
NoValue == [UUID |-> <<>>, type |-> "", state |-> "", num |-> NoNum]

\* no actuation PUT resolved
NoAnswer == [UUID |-> <<>>, status |-> 0, duration |-> NoNum, repeat |-> 0]

\* ------------------------------------------------------------- actuation
\* faulty variant: the trigger setting is not looked at
ActuatorStateIgnoresTrigger(trigger, value) == IF value THEN 1 ELSE 0

\* The physical level actuateAccessory sends for a requested value
ActuatorState(trigger, value) ==
  IF trigger = "low" /\ value = FALSE THEN 1
  ELSE IF trigger = "low" /\ value = TRUE THEN 0
  ELSE IF (trigger = "high" \/ trigger = UndefS) /\ value = FALSE THEN 0
  ELSE IF (trigger = "high" \/ trigger = UndefS) /\ value = TRUE THEN 1
  ELSE 0

\* runtimeCache.find(r => r.UUID === uuid): index of the first record, 0 if none
RECURSIVE FindFrom(_, _, _)
FindFrom(cache, uuid, i) ==
  IF i > Len(cache) THEN 0
  ELSE IF cache[i].UUID = uuid THEN i
  ELSE FindFrom(cache, uuid, i + 1)

CacheFind(cache, uuid) == FindFrom(cache, uuid, 1)

\* The switch settings in force: the inbound ones when truthy, else the zone's.
\* Settings are [pulseDuration, pulsePause, pulseRepeat], 0 when not set;
\* inbound is "null", "empty" ({}) or "entryDelay".
EntryDelaySettings == [pulseDuration |-> 0, pulsePause |-> 0, pulseRepeat |-> 0]

SwitchSettingsOf(z, inbound) ==
  IF inbound = "entryDelay" THEN EntryDelaySettings
  ELSE IF inbound = "empty" THEN [pulseDuration |-> 0, pulsePause |-> 0, pulseRepeat |-> 0]
  ELSE [pulseDuration |-> z.pulseDuration, pulsePause |-> z.pulsePause,
        pulseRepeat |-> z.pulseRepeat]

\* faulty variant: the pauses between the pulses are not counted
ActuatorDurationWithoutPauses(ss, value) ==
  IF ~value \/ ss.pulseDuration = 0 THEN NoNum
  ELSE IF ss.pulseRepeat # 0 /\ ss.pulsePause # 0 /\ ss.pulseRepeat > 0
    THEN ss.pulseDuration * ss.pulseRepeat
  ELSE ss.pulseDuration

\* actuatorDuration: the time the pulse sequence takes, NoNum when it stays
\* undefined or becomes NaN (no pulse duration)
ActuatorDuration(ss, value) ==
  IF ~value \/ ss.pulseDuration = 0 THEN NoNum
  ELSE IF ss.pulseRepeat # 0 /\ ss.pulsePause # 0 /\ ss.pulseRepeat > 0
    THEN ss.pulseDuration * ss.pulseRepeat + ss.pulsePause * (ss.pulseRepeat - 1)
  ELSE ss.pulseDuration

\* The command actuateAccessory sends for one configured zone z of panel p,
\* with what the continuation of its PUT keeps: the duration computed, the
\* repeat count of the switch settings and the type of the accessory
ActuatorPayload(cache, p, z, uuid, value, inbound) ==
  LET rec == cache[CacheFind(cache, uuid)]
      pro == PanelObject(p).model
      ss == SwitchSettingsOf(z, inbound)
      pulse == value = TRUE /\ ss.pulseDuration # 0
      rep == value = TRUE /\ ss.pulseRepeat # 0 /\ ss.pulsePause # 0
  IN [UUID |-> uuid, value |-> value, panel |-> p,
      endpoint |-> IF pro THEN "zone" ELSE "device",
      state |-> ActuatorState(rec.trigger, value),
      zone |-> IF pro /\ "switch" \in ZONES(z.zoneNumber) THEN z.zoneNumber ELSE "",
      pin |-> IF ~pro /\ (LessThan6(z.zoneNumber) \/ z.zoneNumber = "out")
                THEN ZONES_TO_PINS(z.zoneNumber) ELSE NoNum,
      momentary |-> IF pulse THEN ss.pulseDuration ELSE NoNum,
      times |-> IF rep THEN ss.pulseRepeat ELSE NoNum,
      pause |-> IF rep THEN ss.pulsePause ELSE NoNum,
      duration |-> ActuatorDuration(ss, value),
      repeat |-> ss.pulseRepeat,
      type |-> rec.type]

\* The configured zones of panel p whose zoneNumber is zn, in order
RECURSIVE ZonesNumbered(_, _)
ZonesNumbered(zones, zn) ==
  IF zones = <<>> THEN <<>>
  ELSE (IF Head(zones).zoneNumber = zn THEN <<Head(zones)>> ELSE <<>>)
         \o ZonesNumbered(Tail(zones), zn)

RECURSIVE PayloadsFor(_, _, _, _, _, _)
PayloadsFor(cache, p, zs, uuid, value, inbound) ==
  IF zs = <<>> THEN <<>>
  ELSE <<ActuatorPayload(cache, p, Head(zs), uuid, value, inbound)>>
         \o PayloadsFor(cache, p, Tail(zs), uuid, value, inbound)

\* actuateAccessory(zoneUUID, value, inboundSwitchSettings): the commands sent.
\* Nothing is sent unless the accessory is among this.accessories; the panel
\* and the zone are then looked up in the configuration.
ActuateAccessory(cache, uuid, value, inbound) ==
  IF uuid \in DOMAIN accessories
    THEN LET p == cache[CacheFind(cache, uuid)].panel
         IN PayloadsFor(cache, p, ZonesNumbered(config[p], uuid[2]), uuid, value, inbound)
    ELSE <<>>

\* cache.forEach(r => if (types.includes(r.type)) actuateAccessory(r.UUID, ...))
\* valueOf maps the type of a record to the value requested.
RECURSIVE ActuateEach(_, _, _, _, _)
ActuateEach(cache, i, types, onTypes, inbound) ==
  IF i > Len(cache) THEN <<>>
  ELSE (IF cache[i].type \in types
          THEN ActuateAccessory(cache, cache[i].UUID, cache[i].type \in onTypes, inbound)
          ELSE <<>>)
       \o ActuateEach(cache, i + 1, types, onTypes, inbound)

\* The On values the same calls push to HomeKit: actuateAccessory updates
\* the characteristic before it looks for the accessory
RECURSIVE PushedEach(_, _, _, _)
PushedEach(cache, i, types, onTypes) ==
  IF i > Len(cache) THEN <<>>
  ELSE (IF cache[i].type \in types
          THEN <<[UUID |-> cache[i].UUID, value |-> cache[i].type \in onTypes]>>
          ELSE <<>>)
       \o PushedEach(cache, i + 1, types, onTypes)

\* ------------------------------------------------------- security system
BeeperTypes == {"beeper"}
AlarmTypes == {"siren", "strobe"}

\* The part of the state the security engine changes while it handles one
\* event: the cache, the timer handle, the timers and the commands sent.
Engine ==
  [cache |-> accessoriesRuntimeCache, handle |-> entryTriggerDelayTimerHandle,
   timers |-> entryTimers, started |-> timersStarted, armed |-> armedAtStart,
   ss |-> ssState, sent |-> <<>>, pushed |-> <<>>, events |-> {}]

\* securitySystemAccessory?.context.device.state as processSensorAccessoryActions
\* reads it: the security system is looked up among this.accessories
SecurityStateSeen(e) == IF ssRestored THEN e.ss ELSE NoState

\* triggerableModes?.includes(String(securitySystemAccessory?.context.device.state))
ModeTriggerable(e, rec) == StringOf(SecurityStateSeen(e)) \in rec.triggerableModes

\* faulty variants: the handle is not looked at; the mode is not looked at
ShouldStartEntryDelayAnyHandle(e, rec) == ModeTriggerable(e, rec)
ShouldStartEntryDelayAnyMode(e, rec) == e.handle = "undefined"

\* Does a state change on this zone have to start the entry delay?
ShouldStartEntryDelay(e, rec) ==
  /\ ModeTriggerable(e, rec)
  /\ e.handle = "undefined"

\* The inbound switch settings of the entry-delay beep
EntryDelayInbound == IF EntryDelaySettings.pulseDuration # 0 THEN "entryDelay" ELSE "empty"

\* processSensorAccessoryActions(accessory, defaultStateValue, resultStateValue)
ProcessSensorAccessoryActions(e, rec, defaultStateValue, resultStateValue) ==
  IF defaultStateValue = resultStateValue THEN e
  ELSE IF ShouldStartEntryDelay(e, rec)
    THEN [e EXCEPT
            !.sent = @ \o ActuateEach(e.cache, 1, BeeperTypes, BeeperTypes, EntryDelayInbound),
            !.pushed = @ \o PushedEach(e.cache, 1, BeeperTypes, BeeperTypes),
            !.handle = "pending",
            !.timers = @ + 1,
            !.started = @ + 1,
            !.armed = SecurityStateSeen(e) \in {0, 1, 2},
            !.events = @ \cup {"timer started"}]
  ELSE
    LET n == IF ModeTriggerable(e, rec) THEN [e EXCEPT !.events = @ \cup {"change ignored"}]
             ELSE e
    IN IF rec.type \in {"contact", "motion"} /\ rec.audibleBeep
         THEN [n EXCEPT
                 !.sent = @ \o ActuateEach(e.cache, 1, BeeperTypes, BeeperTypes, "null"),
                 !.pushed = @ \o PushedEach(e.cache, 1, BeeperTypes, BeeperTypes)]
         ELSE n

\* faulty variant: disarming leaves the entry-delay timer alone
ControlSecuritySystemKeepsTimer(e, value) ==
  LET stored == IF ssRestored THEN [e EXCEPT !.ss = value] ELSE e
  IN IF value = 3
       THEN [stored EXCEPT
               !.sent = @ \o ActuateEach(e.cache, 1, BeeperTypes \cup AlarmTypes, {}, "null"),
               !.pushed = @ \o PushedEach(e.cache, 1, BeeperTypes \cup AlarmTypes, {})]
     ELSE IF value = 4
       THEN [stored EXCEPT
               !.sent = @ \o ActuateEach(e.cache, 1, BeeperTypes \cup AlarmTypes, AlarmTypes,
                                          "null"),
               !.pushed = @ \o PushedEach(e.cache, 1, BeeperTypes \cup AlarmTypes, AlarmTypes)]
     ELSE stored

\* faulty variant: every target that is set clears the entry-delay timer
ControlSecuritySystemClearsOnArm(e, value) ==
  LET stored == IF ssRestored THEN [e EXCEPT !.ss = value] ELSE e
      cleared == [stored EXCEPT
                    !.timers = IF e.handle = "pending" THEN e.timers - 1 ELSE e.timers,
                    !.handle = "undefined",
                    !.started = 0,
                    !.events = IF e.handle = "pending" THEN @ \cup {"timer cleared"} ELSE @]
  IN IF value = 3
       THEN [cleared EXCEPT
               !.armed = FALSE,
               !.sent = @ \o ActuateEach(e.cache, 1, BeeperTypes \cup AlarmTypes, {}, "null"),
               !.pushed = @ \o PushedEach(e.cache, 1, BeeperTypes \cup AlarmTypes, {})]
     ELSE IF value = 4
       THEN [stored EXCEPT
               !.sent = @ \o ActuateEach(e.cache, 1, BeeperTypes \cup AlarmTypes, AlarmTypes,
                                          "null"),
               !.pushed = @ \o PushedEach(e.cache, 1, BeeperTypes \cup AlarmTypes, AlarmTypes)]
     ELSE cleared

\* controlSecuritySystem(value)
ControlSecuritySystem(e, value) ==
  LET stored == IF ssRestored THEN [e EXCEPT !.ss = value] ELSE e
  IN IF value = 3
       THEN [stored EXCEPT
               !.timers = IF e.handle = "pending" THEN e.timers - 1 ELSE e.timers,
               !.handle = "undefined",
               !.started = 0,
               !.armed = FALSE,
               !.events = IF e.handle = "pending" THEN @ \cup {"timer cleared"} ELSE @,
               !.sent = @ \o ActuateEach(e.cache, 1, BeeperTypes \cup AlarmTypes, {}, "null"),
               !.pushed = @ \o PushedEach(e.cache, 1, BeeperTypes \cup AlarmTypes, {})]
     ELSE IF value = 4
       THEN [stored EXCEPT
               !.sent = @ \o ActuateEach(e.cache, 1, BeeperTypes \cup AlarmTypes, AlarmTypes,
                                          "null"),
               !.pushed = @ \o PushedEach(e.cache, 1, BeeperTypes \cup AlarmTypes, AlarmTypes)]
     ELSE stored

\* ------------------------------------------------------- callback server
\* Object.entries(ZONES_TO_PINS): the zone whose pin is the given one, "" if none
ZoneOfPin(pin) ==
  IF \E z \in V1ZoneNames : ZONES_TO_PINS(z) = pin
    THEN CHOOSE z \in V1ZoneNames : ZONES_TO_PINS(z) = pin
    ELSE ""

\* the zone a callback body or a query addresses
RequestZone(req) == IF req.pin # NoNum THEN ZoneOfPin(req.pin) ELSE req.zone

\* The number a binary state is stored as
NumState(n) == IF n = 0 THEN "n0" ELSE "n1"

\* faulty variant: a record that holds a state keeps it
StoreCallbackKeepsFirst(rec, req, resultStateValue) ==
  LET svc == ServiceOf(rec.type)
  IN IF svc \in {"ContactSensor", "MotionSensor", "LeakSensor", "SmokeSensor"}
       THEN IF rec.state = UndefS THEN [rec EXCEPT !.state = NumState(resultStateValue)]
            ELSE rec
     ELSE IF svc = "TemperatureSensor" THEN [rec EXCEPT !.temp = req.temp]
     ELSE IF svc = "HumiditySensor" THEN [rec EXCEPT !.temp = req.temp, !.humi = req.humi]
     ELSE rec

\* The cache record after a callback with the given body
StoreCallback(rec, req, resultStateValue) ==
  LET svc == ServiceOf(rec.type)
  IN IF svc \in {"ContactSensor", "MotionSensor", "LeakSensor", "SmokeSensor"}
       THEN [rec EXCEPT !.state = NumState(resultStateValue)]
     ELSE IF svc = "TemperatureSensor" THEN [rec EXCEPT !.temp = req.temp]
     ELSE IF svc = "HumiditySensor" THEN [rec EXCEPT !.temp = req.temp, !.humi = req.humi]
     ELSE rec

\* faulty variant: every zone is handled as a binary sensor
IsBinaryZoneAlways(rec) == TRUE

\* !['humidtemp', 'temperature'].includes(runtimeCacheAccessory.type)
IsBinaryZone(rec) == rec.type \notin {"humidtemp", "temperature"}

\* The accessoriesRuntimeCache.forEach of updateSensorAccessoryState, from
\* record i on, for the zone UUID of the callback
RECURSIVE UpdateFrom(_, _, _, _)
UpdateFrom(e, i, uuid, req) ==
  IF i > Len(e.cache) THEN e
  ELSE IF e.cache[i].UUID # uuid THEN UpdateFrom(e, i + 1, uuid, req)
  ELSE
    LET rec == e.cache[i]
        binary == IsBinaryZone(rec)
        inverted == binary /\ rec.invert = TRUE
        defaultStateValue == IF inverted THEN 1 ELSE 0
        resultStateValue == IF inverted THEN (IF req.state = 0 THEN 1 ELSE 0) ELSE req.state
        e1 == IF binary
                THEN ProcessSensorAccessoryActions(e, rec, defaultStateValue, resultStateValue)
                ELSE e
        e2 == [e1 EXCEPT !.cache[i] = StoreCallback(rec, req, resultStateValue)]
    IN UpdateFrom(e2, i + 1, uuid, req)

\* updateSensorAccessoryState(inboundPayload): nothing happens unless the
\* accessory of the zone is among this.accessories
UpdateSensorAccessoryState(e, req) ==
  LET uuid == <<req.id, RequestZone(req)>>
  IN IF uuid \in DOMAIN accessories THEN UpdateFrom(e, 1, uuid, req) ELSE e

\* req.headers.authorization.split('Bearer ').pop(): what follows 'Bearer ',
\* or the whole header when it has no such scheme
TokenOf(auth) == auth.rest

\* faulty variant: every token is accepted
TokenAcceptedAlways(auth) == TRUE

\* this.listenerAuth.includes(token)
TokenAccepted(auth) == \E i \in 1..Len(listenerAuth) : listenerAuth[i] = TokenOf(auth)

\* The state a GET query reports for one cache record; prev is the state
\* set so far (NoNum when the payload has no state)
QueryState(rec, prev) ==
  IF rec.type \in {"beeper", "siren", "strobe", "switch"}
    THEN IF rec.trigger = "low" /\ rec.state = "n0" THEN 1
         ELSE IF rec.trigger = "low" /\ (rec.state = "n1" \/ rec.state = UndefS) THEN 0
         ELSE IF (rec.trigger = "high" \/ rec.trigger = UndefS)
                  /\ (rec.state = "n0" \/ rec.state = UndefS) THEN 0
         ELSE IF (rec.trigger = "high" \/ rec.trigger = UndefS) /\ rec.state = "n1" THEN 1
         ELSE prev
    ELSE IF rec.state \in {"n1", "true"} THEN 1 ELSE 0

\* The accessoriesRuntimeCache.find of the GET branch: every record of the
\* serial number sets the state in turn
RECURSIVE QueryFrom(_, _, _, _)
QueryFrom(cache, i, serial, prev) ==
  IF i > Len(cache) THEN prev
  ELSE QueryFrom(cache, i + 1, serial,
                 IF cache[i].UUID = serial THEN QueryState(cache[i], prev) ELSE prev)

\* ---------------------------------------------------------- provisioning
\* index of the last record of a UUID in the cache, 0 if none
RECURSIVE FindLastFrom(_, _, _)
FindLastFrom(cache, uuid, i) ==
  IF i = 0 THEN 0
  ELSE IF cache[i].UUID = uuid THEN i
  ELSE FindLastFrom(cache, uuid, i - 1)

\* accessory.context.device of a restored accessory: the zone object that
\* registerAccessories stored last (the last cache record of the UUID), or
\* the context restored from disk when the zone was not provisioned yet
ContextDevice(cache, uuid) ==
  LET last == FindLastFrom(cache, uuid, Len(cache))
  IN IF last # 0
       THEN [state |-> cache[last].state, temp |-> cache[last].temp, humi |-> cache[last].humi]
       ELSE [state |-> accessories[uuid].state, temp |-> accessories[uuid].temp,
             humi |-> accessories[uuid].humi]

\* The loop state of configureZones
ZonesLoopStart(cache) ==
  [payload |-> EmptyPayload, existingPayloadZones |-> {}, cache |-> cache, warnings |-> <<>>]

\* The payload arrays after the zone's element is put into the array of
\* its type
PushToPayload(p, z, payload) ==
  LET pro == PanelObject(p).model
      bucket == BucketOf(z.zoneType)
  IN IF PushesToPayload(pro, z) /\ bucket # ""
       THEN [payload EXCEPT ![bucket] = Append(@, PanelZoneOf(pro, z))]
       ELSE payload

\* One iteration of configPanel.zones.forEach, given the payload arrays after
\* the zone's element was handled: the dedupe on the zone UUID, the zone
\* object with the carried-over state, the cache and the warnings
DedupeAndCache(p, z, st, pushed) ==
  LET asg == AssignPinOrZone(PanelObject(p).model, z)
      uuid == ZoneUUID(p, z.zoneNumber)
      w1 == IF asg.warn # ""
              THEN Append(st.warnings, [kind |-> asg.warn, zoneNumber |-> z.zoneNumber])
              ELSE st.warnings
      zobj == IF uuid \in DOMAIN accessories
                THEN CarryOver(ZoneObject(p, z), ContextDevice(st.cache, uuid))
                ELSE ZoneObject(p, z)
  IN IF uuid \notin st.existingPayloadZones
       THEN [payload |-> pushed,
             existingPayloadZones |-> st.existingPayloadZones \cup {uuid},
             cache |-> IF z.enabled = "true" THEN Append(st.cache, zobj) ELSE st.cache,
             warnings |-> w1]
       ELSE [payload |-> pushed,
             existingPayloadZones |-> st.existingPayloadZones,
             cache |-> st.cache,
             warnings |-> Append(w1, [kind |-> "duplicate", zoneNumber |-> z.zoneNumber])]

\* faulty variant: a zone the runtime cache already holds is not compiled
ConfigureZoneSkipsCached(p, z, st) ==
  DedupeAndCache(p, z, st,
                 IF CacheFind(st.cache, ZoneUUID(p, z.zoneNumber)) = 0
                   THEN PushToPayload(p, z, st.payload)
                   ELSE st.payload)

\* One iteration of configPanel.zones.forEach in configureZones: the element
\* is put into the payload before the zone is checked for a duplicate
ConfigureZone(p, z, st) == DedupeAndCache(p, z, st, PushToPayload(p, z, st.payload))

RECURSIVE ZonesLoop(_, _, _)
ZonesLoop(p, zones, st) ==
  IF zones = <<>> THEN st
  ELSE ZonesLoop(p, Tail(zones), ConfigureZone(p, Head(zones), st))

\* configureZones(panelUUID, panelObject): the payload arrays, the cache with
\* the new zone objects and the warnings logged
ConfigureZones(p, cache) == ZonesLoop(p, config[p], ZonesLoopStart(cache))

\* The settings payload provisionPanel sends (blink: the configured default)
SettingsPayload(p, token, arrays) ==
  [panel |-> p, endpoint_type |-> "rest",
   endpoint |-> [ip |-> ListenerIP, port |-> ListenerPort],
   token |-> token, blink |-> TRUE, discovery |-> TRUE, platform |-> "Homebridge",
   sensors |-> arrays.sensors, dht_sensors |-> arrays.dht_sensors,
   ds18b20_sensors |-> arrays.ds18b20_sensors, actuators |-> arrays.actuators]

\* uuidv4(): a token no earlier call returned
FreshToken == Len(listenerAuth) + 1

\* new URL(endpoint).host: the port is part of it unless it is the default
\* port of http; .port is then the empty string, whose Number is 0
DefaultHttpPort == 80
UrlHost(ep) == IF ep.port = DefaultHttpPort THEN <<ep.ip>> ELSE <<ep.ip, ep.port>>
UrlPort(ep) == IF ep.port = DefaultHttpPort THEN 0 ELSE ep.port

\* faulty variant: a panel whose endpoint is this listener is left alone
ShouldProvisionOnMismatch(settings) ==
  IF settings = SettingsEmpty THEN TRUE
  ELSE IF settings.endpoint_type = "rest"
    THEN settings.ip # ListenerIP \/ settings.port # ListenerPort
  ELSE FALSE

\* faulty variant: every panel that answers is provisioned
ShouldProvisionAlways(settings) == TRUE

\* Does the response handler of discoverPanels provision this panel?
ShouldProvision(settings) ==
  IF settings = SettingsEmpty THEN TRUE
  ELSE IF settings.endpoint_type = "rest"
    THEN UrlHost(settings) # <<ListenerIP>> \/ UrlPort(settings) # ListenerPort
  ELSE FALSE

\* ---------------------------------------------------------------- inputs
\* The main configuration: a V1-V2 panel with a contact sensor on zone 3
\* (pin 5, triggerable in Stay and Away, audible beep), a beeper on zone 5 and
\* a strobe on the out zone whose trigger is high; a Pro panel with a siren on
\* alarm1 whose trigger is low.
MainConfig ==
  [v1 |-> <<SensorZone("3", "contact", FALSE, TRUE, {"0", "1"}),
            SwitchZone("5", "beeper", UndefS),
            SwitchZone("out", "strobe", "high")>>,
   pro |-> <<SwitchZone("alarm1", "siren", "low")>>]

\* the UUIDs of the zones a configuration holds
ConfigUUIDs(cfg) ==
  UNION {{ZoneUUID(p, cfg[p][i].zoneNumber) : i \in 1..Len(cfg[p])} : p \in Panels}

\* the first configured zone of a UUID
ZoneOfUUID(cfg, uuid) ==
  LET p == CHOOSE q \in Panels : PanelShortUUID(q) = uuid[1]
      i == CHOOSE j \in 1..Len(cfg[p]) :
             /\ cfg[p][j].zoneNumber = uuid[2]
             /\ \A k \in 1..(j - 1) : cfg[p][k].zoneNumber # uuid[2]
  IN cfg[p][i]

\* The context.device a zone accessory was saved with by the previous run:
\* never written ("fresh"), or with a sensor active and a switch on ("used")
DiskContext(cfg, uuid, flavour) ==
  LET z == ZoneOfUUID(cfg, uuid)
  IN [state |-> IF flavour = "fresh" THEN UndefS
                ELSE IF ServiceOf(z.zoneType) = "Switch" THEN "true"
                ELSE IF ServiceOf(z.zoneType) \in {"TemperatureSensor", "HumiditySensor"}
                  THEN UndefS
                ELSE "n1",
      temp |-> NoNum, humi |-> NoNum,
      triggerableModes |-> z.triggerableModes]

\* The accessories Homebridge restores at startup: none (first run), all the
\* configured zones, or all but the sirens (zones added since the last run)
RestoredSets(cfg) ==
  {{}, ConfigUUIDs(cfg),
   {u \in ConfigUUIDs(cfg) : ZoneOfUUID(cfg, u).zoneType # "siren"}}

RestoredAccessories(cfg) ==
  {[u \in R |-> DiskContext(cfg, u, IF R = ConfigUUIDs(cfg) THEN "used" ELSE "fresh")] :
     R \in RestoredSets(cfg)}

\* validSecuritySystemStates as the constructor of the security system
\* accessory computes it from the triggerable modes of this.accessories
ValidStates(acc) ==
  {3, 1} \cup (IF \E u \in DOMAIN acc : "0" \in acc[u].triggerableModes THEN {0} ELSE {})
         \cup (IF \E u \in DOMAIN acc : "2" \in acc[u].triggerableModes THEN {2} ELSE {})

\* the state the security system accessory was saved with
DiskSecurityStates == {NoState, 3}

\* the settings of panels that were never provisioned
FactorySettings == [p \in Panels |-> SettingsEmpty]

\* The platform after construction, for a given configuration and the
\* settings the panels of the network hold
InitUsn(cfg, settings, usns) ==
  /\ config = cfg
  /\ usn \in usns
  /\ written = Panels
  /\ accessories \in RestoredAccessories(cfg)
  /\ ssRestored \in BOOLEAN
  /\ (DOMAIN accessories # {} => ssRestored)
  /\ ssState \in (IF ssRestored THEN DiskSecurityStates ELSE {0})
  /\ validSecuritySystemStates = ValidStates(accessories)
  /\ accessoriesRuntimeCache = <<>>
  /\ entryTriggerDelayTimerHandle = "undefined"
  /\ entryTimers = 0
  /\ timersStarted = 0
  /\ armedAtStart = FALSE
  /\ listenerAuth = <<>>
  /\ provisioned = <<>>
  /\ warnings = <<>>
  /\ ssdpDiscovering = FALSE
  /\ ssdpDiscoverAttempts = 0
  /\ passes = <<>>
  /\ fetching = {}
  /\ panelSettings \in settings
  /\ sent = <<>>
  /\ onPushed = <<>>
  /\ actuating = <<>>
  /\ resetTimers = <<>>
  /\ answered = NoAnswer
  /\ request = NoRequest
  /\ response = NoResponse
  /\ events = {}
  /\ launched = FALSE
  /\ registered = DOMAIN accessories
  /\ got = NoValue

\* the same when every panel announces a USN of the expected form
InitWith(cfg, settings) ==
  InitUsn(cfg, settings, {[p \in Panels |-> WellFormedUsn(p)]})

Init == InitWith(MainConfig, {FactorySettings})

\* The zones the enumerated configurations of the V1-V2 panel are made of:
\* a contact sensor and a switch that share zone 3, a temperature sensor on
\* zone 4 that is polled, a beeper on zone 5
V1ZoneSamples ==
  {SensorZone("3", "contact", FALSE, FALSE, {"1"}),
   SwitchZone("3", "switch", "low"),
   Zone("4", "temperature", "true", FALSE, FALSE, UndefS, {}, 3, 0, 0, 0),
   SwitchZone("5", "beeper", UndefS)}

\* every configuration of up to MaxZones of these zones, in every order and
\* with repetitions, next to the Pro panel of the main configuration
ZoneConfigs ==
  {[v1 |-> zs, pro |-> MainConfig["pro"]] :
     zs \in UNION {[1..n -> V1ZoneSamples] : n \in 1..MaxZones}}

\* The settings of a network on which one panel was provisioned by the vendor
\* cloud and the other was never provisioned or reports the REST endpoint of
\* another service
CloudSettings ==
  {[v1 |-> SettingsEmpty, pro |-> SettingsAws],
   [v1 |-> SettingsAws, pro |-> SettingsRest("ip-other", ListenerPort)]}

\* The configuration of the sensor scenarios: on the V1-V2 panel a glass-break
\* sensor on zone 1 with the audible beep set, a motion sensor on zone 2
\* without it that is triggerable in Stay, a contact sensor on zone 3 with it
\* that is triggerable in Away, a temperature sensor on zone 4 whose settings
\* name Away as triggerable, and a beeper on zone 5
SensorConfig ==
  [v1 |-> <<SensorZone("1", "glass", FALSE, TRUE, {}),
            SensorZone("2", "motion", FALSE, FALSE, {"0"}),
            SensorZone("3", "contact", FALSE, TRUE, {"1"}),
            Zone("4", "temperature", "true", FALSE, FALSE, UndefS, {"1"}, 3, 0, 0, 0),
            SwitchZone("5", "beeper", UndefS)>>,
   pro |-> <<>>]

\* A switch zone with pulse settings
PulseZone(zn, dur, pause, rep) ==
  Zone(zn, "switch", "true", FALSE, FALSE, UndefS, {}, 0, dur, pause, rep)

\* The configuration of the momentary scenarios: on the V1-V2 panel a switch
\* on zone 1 that pulses three times (1000 ms on, 500 ms pause), a switch on
\* zone 2 with one pulse of 1000 ms and a switch on zone 4 that pulses until
\* it is switched off (975 ms on, 25 ms pause, repeat -1)
PulseConfig ==
  [v1 |-> <<PulseZone("1", 1000, 500, 3),
            PulseZone("2", 1000, 0, 0),
            PulseZone("4", 975, 25, -1)>>,
   pro |-> <<>>]

\* what every step resets: the outputs of the step before
NoOutput ==
  /\ sent' = <<>> /\ onPushed' = <<>> /\ answered' = NoAnswer /\ got' = NoValue
  /\ response' = NoResponse /\ request' = NoRequest
  /\ warnings' = <<>>
  /\ events' = {}

engineVars ==
  <<accessoriesRuntimeCache, entryTriggerDelayTimerHandle, entryTimers, timersStarted,
    armedAtStart, ssState>>
discoveryVars == <<ssdpDiscovering, ssdpDiscoverAttempts, passes, fetching, written>>
provisionVars == <<listenerAuth, provisioned, panelSettings, registered>>

\* maximum number of momentary commands in flight and of reset timers pending
MaxInFlight == 2
MaxResetTimers == 2

\* the commands whose continuation may schedule a reset: those that computed
\* a duration (the others resolve without any effect)
RECURSIVE Momentary(_)
Momentary(cmds) ==
  IF cmds = <<>> THEN <<>>
  ELSE (IF Head(cmds).duration > 0 THEN <<Head(cmds)>> ELSE <<>>) \o Momentary(Tail(cmds))

\* the engine state and the commands sent, written back; the PUTs of the
\* momentary commands are in flight
SetEngine(e) ==
  /\ Len(actuating \o Momentary(e.sent)) <= MaxInFlight
  /\ actuating' = actuating \o Momentary(e.sent)
  /\ onPushed' = e.pushed
  /\ answered' = NoAnswer /\ got' = NoValue
  /\ accessoriesRuntimeCache' = e.cache
  /\ entryTriggerDelayTimerHandle' = e.handle
  /\ entryTimers' = e.timers
  /\ timersStarted' = e.started
  /\ armedAtStart' = e.armed
  /\ ssState' = e.ss
  /\ sent' = e.sent
  /\ events' = e.events

\* discoverPanels(): the flag is set and a search window opens
DiscoverPanels ==
  /\ ssdpDiscovering' = TRUE
  /\ passes' = Append(passes, {})

\* didFinishLaunching: the listening server starts, the security system is
\* registered and the first discovery pass begins
DidFinishLaunching ==
  /\ ~launched
  /\ launched' = TRUE
  /\ DiscoverPanels
  /\ NoOutput
  /\ UNCHANGED <<pulseVars, constVars, engineVars, provisionVars, ssdpDiscoverAttempts, fetching,
                 written>>

\* ------------------------------------------------------- discovery steps
\* ssdpClient.on('response'): a Konnected panel answers the search of the
\* open window k.  The UUID is taken from the USN header; a UUID already seen
\* in this pass is ignored, otherwise the status of the panel is fetched.
\* When the header does not match, the listener ends with a TypeError that
\* nothing catches.
SsdpResponse(k, p) ==
  /\ launched
  /\ k \in 1..Len(passes)
  /\ IF UsnMatches(usn[p])
       THEN /\ PanelUUID(usn[p]) \notin passes[k]
            /\ passes' = [passes EXCEPT ![k] = @ \cup {PanelUUID(usn[p])}]
            /\ fetching' = fetching \cup {p}
            /\ events' = {}
       ELSE /\ events' = {"uncaught exception"}
            /\ UNCHANGED <<passes, fetching>>
  /\ sent' = <<>> /\ onPushed' = <<>> /\ answered' = NoAnswer /\ got' = NoValue
  /\ response' = NoResponse /\ request' = NoRequest /\ warnings' = <<>>
  /\ UNCHANGED <<pulseVars, constVars, engineVars, provisionVars, ssdpDiscovering,
                 ssdpDiscoverAttempts, launched, written>>

\* configPanel.uuid === panelUUID: is the discovered UUID the one the
\* configuration lists for this panel?
ConfiguredAs(p, uuid) == uuid = p

\* configureZones throws when it takes the last segment of the UUID of a
\* panel with a chipId and the UUID has none
ConfigureZonesThrows(p, uuid) == PanelObject(p).chipId /\ ~HasLastSegment(uuid)

\* updateHomebridgeConfig(panelUUID, panelObject): a panel whose uuid is not
\* in config.json yet is added to it
UpdateHomebridgeConfig(uuid) == written' = written \cup {uuid}

\* retainedAccessories of configureZones: the accessories of this.accessories
\* whose zone is the first of its number in the panel's list and is enabled
RetainedAccessories(p) ==
  {u \in DOMAIN accessories :
     \E i \in 1..Len(config[p]) :
       /\ ZoneUUID(p, config[p][i].zoneNumber) = u
       /\ config[p][i].enabled = "true"
       /\ \A j \in 1..(i - 1) : config[p][j].zoneNumber # config[p][i].zoneNumber}

\* registerAccessories(panelShortUUID, zoneObjectsArray, retainedAccessoriesArray):
\* the accessories of this.accessories that belong to the panel and are not
\* retained are unregistered; every record of the runtime cache without an
\* accessory in this.accessories gets a new accessory, which is registered
RegisterAccessories(p, cache) ==
  LET toRemove == {u \in DOMAIN accessories :
                     u[1] = PanelShortUUID(p) /\ u \notin RetainedAccessories(p)}
      toAdd == {cache[i].UUID : i \in {j \in 1..Len(cache) :
                                          cache[j].UUID \notin DOMAIN accessories}}
  IN (registered \ toRemove) \cup toAdd

\* provisionPanel(panelUUID, panelObject, listenerObject): a token is issued,
\* the zones of the configured panel with this UUID are compiled (none when
\* no panel has it), their accessories are registered and the settings are
\* sent.  The PUT either reaches the panel, which reboots with the new
\* settings, or fails.  When configureZones throws, the promise chain of the
\* fetch is rejected after the token was issued.
ProvisionPanel(p, reached) ==
  LET uuid == PanelUUID(usn[p])
      cz == IF ConfiguredAs(p, uuid)
              THEN ConfigureZones(p, accessoriesRuntimeCache)
              ELSE ZonesLoopStart(accessoriesRuntimeCache)
      token == FreshToken
  IN /\ listenerAuth' = Append(listenerAuth, token)
     /\ IF ConfigureZonesThrows(p, uuid)
          THEN /\ events' = {"unhandled rejection"}
               /\ warnings' = <<>>
               /\ UNCHANGED <<provisioned, accessoriesRuntimeCache, panelSettings, registered>>
          ELSE /\ provisioned' = Append(provisioned, SettingsPayload(p, token, cz.payload))
               /\ registered' = IF ConfiguredAs(p, uuid)
                                  THEN RegisterAccessories(p, cz.cache)
                                  ELSE registered
               /\ accessoriesRuntimeCache' = cz.cache
               /\ warnings' = cz.warnings
               /\ events' = {"provisioned"}
               /\ panelSettings' =
                    IF reached
                      THEN [panelSettings EXCEPT ![p] = SettingsRest(ListenerIP, ListenerPort)]
                      ELSE panelSettings

\* The status fetch of a panel resolves: the panel is written to config.json
\* and is provisioned when its settings are empty or name another endpoint
FetchResolved(p, reached) ==
  /\ p \in fetching
  /\ fetching' = fetching \ {p}
  /\ UpdateHomebridgeConfig(PanelUUID(usn[p]))
  /\ IF ShouldProvision(panelSettings[p])
       THEN /\ Len(listenerAuth) < MaxTokens
            /\ ProvisionPanel(p, reached)
       ELSE /\ warnings' = <<>>
            /\ events' = IF panelSettings[p].endpoint_type = "aws_iot"
                           THEN {"cannot provision"} ELSE {}
            /\ UNCHANGED <<provisionVars, accessoriesRuntimeCache>>
  /\ sent' = <<>> /\ onPushed' = <<>> /\ answered' = NoAnswer /\ got' = NoValue /\ response' = NoResponse /\ request' = NoRequest
  /\ UNCHANGED <<pulseVars, constVars, entryTriggerDelayTimerHandle, entryTimers, timersStarted,
                 armedAtStart, ssState, ssdpDiscovering, ssdpDiscoverAttempts, passes,
                 launched>>

\* maximum number of retries of an empty discovery pass
MaxDiscoverAttempts == 5

\* faulty variant: one more retry is allowed
MayRetryOnceMore == ssdpDiscoverAttempts <= MaxDiscoverAttempts

\* May an empty discovery pass be tried again?
MayRetry == ssdpDiscoverAttempts < MaxDiscoverAttempts

\* The timeout that ends the oldest search window after a panel answered:
\* the search stops and the flag is cleared
PassTimeout ==
  /\ passes # <<>>
  /\ Head(passes) # {}
  /\ ssdpDiscovering' = FALSE
  /\ passes' = Tail(passes)
  /\ events' = {"discovery complete"}
  /\ sent' = <<>> /\ onPushed' = <<>> /\ answered' = NoAnswer /\ got' = NoValue
  /\ response' = NoResponse /\ request' = NoRequest /\ warnings' = <<>>
  /\ UNCHANGED <<pulseVars, constVars, engineVars, provisionVars, ssdpDiscoverAttempts, fetching,
                 launched, written>>

\* The timeout that ends the oldest search window when no panel answered:
\* discovery is tried again, up to the maximum number of attempts
PassTimeoutEmpty ==
  /\ passes # <<>>
  /\ Head(passes) = {}
  /\ IF MayRetry
       THEN /\ ssdpDiscoverAttempts' = ssdpDiscoverAttempts + 1
            /\ ssdpDiscovering' = TRUE
            /\ passes' = Append(Tail(passes), {})
            /\ events' = {"retrying"}
       ELSE /\ ssdpDiscoverAttempts' = 0
            /\ ssdpDiscovering' = FALSE
            /\ passes' = Tail(passes)
            /\ events' = {"gave up"}
  /\ sent' = <<>> /\ onPushed' = <<>> /\ answered' = NoAnswer /\ got' = NoValue
  /\ response' = NoResponse /\ request' = NoRequest /\ warnings' = <<>>
  /\ UNCHANGED <<pulseVars, constVars, engineVars, provisionVars, fetching, launched, written>>

\* ------------------------------------------------------- callback steps
\* A request to the listening server: the method, the :id of the route, the
\* authorization header and the pin or zone, state, temp and humi of the body
\* (of the query string for a GET)
Request(method, p, auth, pin, zone, state) ==
  [method |-> method, id |-> PanelShortUUID(p), auth |-> auth,
   pin |-> pin, zone |-> zone, state |-> state, temp |-> NoNum, humi |-> NoNum]

Bearer(token) == [scheme |-> "Bearer ", rest |-> token]

\* the authorization headers requests carry: none, a bearer token, a token
\* without the scheme
AuthHeaders ==
  {NoAuth} \cup {Bearer(t) : t \in 1..(MaxTokens + 1)} \cup {[scheme |-> "", rest |-> 1]}

\* The callbacks of the alarm scenarios: the V1-V2 panel reports pin 5 (zone 3)
\* opened or closed, with the first token issued or with one never issued
AlarmCallbacks ==
  {Request("PUT", "v1", Bearer(t), 5, "", st) : t \in {1, MaxTokens + 1}, st \in {0, 1}}

\* The requests of the server scenarios: the V1-V2 panel reports pin 5, the
\* Pro panel asks for zone alarm1, with every kind of authorization
ServerRequests ==
  {Request("PUT", "v1", a, 5, "", 1) : a \in AuthHeaders}
  \cup {Request("GET", "pro", a, NoNum, "alarm1", NoNum) : a \in AuthHeaders}

\* a callback of a panel whose token the plugin does not know
StaleCallbacks == {Request("PUT", "v1", Bearer(MaxTokens + 1), 5, "", 1)}

\* The state queries of provisioned panels: the V1-V2 panel asks for pin 7
\* (zone 5), the Pro panel for zone alarm1
Queries ==
  {Request("GET", "v1", Bearer(t), 7, "", NoNum) : t \in 1..MaxTokens}
  \cup {Request("GET", "pro", Bearer(t), NoNum, "alarm1", NoNum) : t \in 1..MaxTokens}

\* The response to a request: the status, the reason of a failure and, for
\* a query, the pin or zone asked for and the state
Reply(req, status, reason, state) ==
  [status |-> status, reason |-> reason,
   pin |-> IF req.method = "GET" /\ status = 200 THEN req.pin ELSE NoNum,
   zone |-> IF req.method = "GET" /\ status = 200 /\ req.pin = NoNum THEN req.zone ELSE "",
   state |-> state]

\* respond(req, res) without an authorization header
RespondTokenMissing(req) ==
  /\ launched
  /\ req.auth = NoAuth
  /\ request' = req
  /\ response' = Reply(req, 401, "Authorization failed, token missing", NoNum)
  /\ sent' = <<>> /\ onPushed' = <<>> /\ answered' = NoAnswer /\ got' = NoValue /\ warnings' = <<>> /\ events' = {}
  /\ UNCHANGED <<pulseVars, constVars, engineVars, provisionVars, discoveryVars, launched>>

\* respond(req, res), PUT or POST with an accepted token
RespondUpdate(req) ==
  /\ launched
  /\ req.auth # NoAuth
  /\ TokenAccepted(req.auth)
  /\ req.method \in {"POST", "PUT"}
  /\ request' = req
  /\ response' = Reply(req, 200, "", NoNum)
  /\ SetEngine(UpdateSensorAccessoryState(Engine, req))
  /\ warnings' = <<>>
  /\ UNCHANGED <<resetTimers, constVars, provisionVars, discoveryVars, launched>>

\* respond(req, res), GET with an accepted token
RespondQuery(req) ==
  /\ launched
  /\ req.auth # NoAuth
  /\ TokenAccepted(req.auth)
  /\ req.method = "GET"
  /\ request' = req
  /\ response' = Reply(req, 200, "",
                       QueryFrom(accessoriesRuntimeCache, 1, <<req.id, RequestZone(req)>>, NoNum))
  /\ sent' = <<>> /\ onPushed' = <<>> /\ answered' = NoAnswer /\ got' = NoValue /\ warnings' = <<>> /\ events' = {}
  /\ UNCHANGED <<pulseVars, constVars, engineVars, provisionVars, discoveryVars, launched>>

\* faulty variant: the flag is not looked at
MayRediscoverAlways == TRUE

\* May an invalid token start a discovery pass?
MayRediscover == ssdpDiscovering = FALSE

\* respond(req, res) with a token that is not accepted
RespondTokenInvalid(req) ==
  /\ launched
  /\ req.auth # NoAuth
  /\ ~TokenAccepted(req.auth)
  /\ request' = req
  /\ response' = Reply(req, 401, "Authorization failed, token not valid", NoNum)
  /\ IF MayRediscover
       THEN DiscoverPanels /\ events' = {"rediscovering"}
       ELSE UNCHANGED <<ssdpDiscovering, passes>> /\ events' = {}
  /\ sent' = <<>> /\ onPushed' = <<>> /\ answered' = NoAnswer /\ got' = NoValue /\ warnings' = <<>>
  /\ UNCHANGED <<pulseVars, constVars, engineVars, provisionVars, ssdpDiscoverAttempts, fetching,
                 launched, written>>

\* ------------------------------------------------------- HomeKit steps
\* setSecuritySystemTargetState(value): the target is one of the valid values
SetTarget(value) ==
  /\ launched
  /\ value \in validSecuritySystemStates
  /\ SetEngine(ControlSecuritySystem([Engine EXCEPT !.ss = value, !.events = {"target set"}],
                                     value))
  /\ response' = NoResponse /\ request' = NoRequest /\ warnings' = <<>>
  /\ UNCHANGED <<resetTimers, constVars, provisionVars, discoveryVars, launched>>

\* getSecuritySystemState(characteristic): a state that is undefined or not
\* among the valid values is replaced by 1
GetSecuritySystemState ==
  /\ launched
  /\ ssState' = IF ssState = NoState \/ ssState \notin validSecuritySystemStates
                  THEN 1 ELSE ssState
  /\ NoOutput
  /\ UNCHANGED <<pulseVars, constVars, accessoriesRuntimeCache, entryTriggerDelayTimerHandle,
                 entryTimers, timersStarted, armedAtStart, provisionVars, discoveryVars,
                 launched>>

\* The entry-delay timer expires: controlSecuritySystem(4)
EntryDelayExpires ==
  /\ entryTimers > 0
  /\ LET e == [Engine EXCEPT !.timers = @ - 1,
                             !.handle = IF @ = "pending" THEN "fired" ELSE @,
                             !.events = {"timer fired"}]
     IN SetEngine(ControlSecuritySystem(e, 4))
  /\ response' = NoResponse /\ request' = NoRequest /\ warnings' = <<>>
  /\ UNCHANGED <<resetTimers, constVars, provisionVars, discoveryVars, launched>>

\* setAccessoryState(type, value) from the forEach on: every cache record of
\* the accessory stores the value and the zone is actuated
RECURSIVE SetStateFrom(_, _, _, _)
SetStateFrom(e, i, uuid, value) ==
  IF i > Len(e.cache) THEN e
  ELSE IF e.cache[i].UUID # uuid THEN SetStateFrom(e, i + 1, uuid, value)
  ELSE LET e1 == [e EXCEPT !.cache[i].state = IF value THEN "true" ELSE "false"]
       IN SetStateFrom([e1 EXCEPT
                          !.sent = @ \o ActuateAccessory(e1.cache, uuid, value, "null"),
                          !.pushed = Append(@, [UUID |-> uuid, value |-> value])],
                       i + 1, uuid, value)

\* the zones HomeKit shows as switches
SwitchUUIDs ==
  {accessoriesRuntimeCache[i].UUID : i \in {j \in 1..Len(accessoriesRuntimeCache) :
     ServiceOf(accessoriesRuntimeCache[j].type) = "Switch"}}

\* setSwitchState(value) of a switch accessory
SetSwitchState(uuid, value) ==
  /\ uuid \in SwitchUUIDs
  /\ SetEngine(SetStateFrom(Engine, 1, uuid, value))
  /\ response' = NoResponse /\ request' = NoRequest /\ warnings' = <<>>
  /\ UNCHANGED <<resetTimers, constVars, provisionVars, discoveryVars, launched>>

\* The type label the getter of a HomeKit service passes to getAccessoryState
GetterType(svc) ==
  CASE svc = "ContactSensor" -> "contact"
    [] svc = "MotionSensor" -> "motion"
    [] svc = "LeakSensor" -> "water"
    [] svc = "SmokeSensor" -> "smoke"
    [] svc = "TemperatureSensor" -> "temp"
    [] svc = "HumiditySensor" -> "humi"
    [] svc = "Switch" -> "switch"
    [] OTHER -> ""

\* faulty variant: the default is returned but not stored
ReadRecordWithoutStore(rec, type) ==
  IF type \in {"motion", "switch"}
    THEN [rec |-> rec, state |-> IF rec.state \in {"false", "true"} THEN rec.state ELSE "false",
          num |-> NoNum]
  ELSE IF type \in {"contact", "water", "smoke"}
    THEN [rec |-> rec, state |-> IF rec.state \in {"n0", "n1"} THEN rec.state ELSE "n0",
          num |-> NoNum]
  ELSE IF type = "humi"
    THEN [rec |-> rec, state |-> "", num |-> IF rec.humi = NoNum THEN 0 ELSE rec.humi]
  ELSE IF type = "temp"
    THEN [rec |-> rec, state |-> "", num |-> IF rec.temp = NoNum THEN 0 ELSE rec.temp]
  ELSE [rec |-> rec, state |-> "", num |-> NoNum]

\* The body of the forEach of getAccessoryState(type) for one record of the
\* accessory: the record afterwards and the value.  A state that has not the
\* type HomeKit expects (a boolean "false" or "true", a number "n0" or "n1")
\* is replaced by the default, false or 0; the humidity getter reads the
\* temperature as well.
ReadRecord(rec, type) ==
  IF type \in {"motion", "switch"}
    THEN IF rec.state \notin {"false", "true"}
           THEN [rec |-> [rec EXCEPT !.state = "false"], state |-> "false", num |-> NoNum]
           ELSE [rec |-> rec, state |-> rec.state, num |-> NoNum]
  ELSE IF type \in {"contact", "water", "smoke"}
    THEN IF rec.state \notin {"n0", "n1"}
           THEN [rec |-> [rec EXCEPT !.state = "n0"], state |-> "n0", num |-> NoNum]
           ELSE [rec |-> rec, state |-> rec.state, num |-> NoNum]
  ELSE IF type = "humi"
    THEN LET t == IF rec.temp = NoNum THEN [rec EXCEPT !.temp = 0] ELSE rec
         IN IF rec.humi = NoNum
              THEN [rec |-> [t EXCEPT !.humi = 0], state |-> "", num |-> 0]
              ELSE [rec |-> t, state |-> "", num |-> rec.humi]
  ELSE IF type = "temp"
    THEN IF rec.temp = NoNum
           THEN [rec |-> [rec EXCEPT !.temp = 0], state |-> "", num |-> 0]
           ELSE [rec |-> rec, state |-> "", num |-> rec.temp]
  ELSE [rec |-> rec, state |-> "", num |-> NoNum]

\* getAccessoryState(type), called by the getter of the service of a zone
\* accessory: every cache record of the accessory is read in turn, the value
\* of the last one is returned
GetAccessoryState(uuid) ==
  /\ \E i \in 1..Len(accessoriesRuntimeCache) : accessoriesRuntimeCache[i].UUID = uuid
  /\ LET last == accessoriesRuntimeCache[FindLastFrom(accessoriesRuntimeCache, uuid,
                                                      Len(accessoriesRuntimeCache))]
         type == GetterType(ServiceOf(last.type))
     IN /\ accessoriesRuntimeCache' =
             [k \in 1..Len(accessoriesRuntimeCache) |->
                IF accessoriesRuntimeCache[k].UUID = uuid
                  THEN ReadRecord(accessoriesRuntimeCache[k], type).rec
                  ELSE accessoriesRuntimeCache[k]]
        /\ got' = [UUID |-> uuid, type |-> type, state |-> ReadRecord(last, type).state,
                   num |-> ReadRecord(last, type).num]
  /\ sent' = <<>> /\ onPushed' = <<>> /\ answered' = NoAnswer
  /\ response' = NoResponse /\ request' = NoRequest /\ warnings' = <<>> /\ events' = {}
  /\ UNCHANGED <<pulseVars, constVars, entryTriggerDelayTimerHandle, entryTimers,
                 timersStarted, armedAtStart, ssState, provisionVars, discoveryVars,
                 launched>>

\* ------------------------------------------------------- momentary steps
\* the sequence without its element i
RemoveAt(seq, i) == SubSeq(seq, 1, i - 1) \o SubSeq(seq, i + 1, Len(seq))

\* faulty variant: the repeat count is not looked at
SchedulesResetAnyRepeat(c, status) ==
  status = 200 /\ c.type \in {"beeper", "siren", "strobe", "switch"} /\ c.duration > 0

\* Does the continuation of a PUT schedule the reset of the switch?
SchedulesReset(c, status) ==
  /\ status = 200
  /\ c.type \in {"beeper", "siren", "strobe", "switch"}
  /\ c.duration > 0
  /\ c.repeat # -1

\* the answers of a panel to an actuation PUT: success, a failure, and no
\* answer at all (fetch rejects)
PanelAnswers == {200, 500, 0}

\* actuatePanelZone after the await: the PUT of the in-flight command i
\* resolved; on success a momentary switch gets its reset timer
ActuateResolved(i, status) ==
  /\ i \in 1..Len(actuating)
  /\ actuating' = RemoveAt(actuating, i)
  /\ answered' = [UUID |-> actuating[i].UUID, status |-> status,
                  duration |-> actuating[i].duration, repeat |-> actuating[i].repeat]
  /\ got' = NoValue
  /\ IF SchedulesReset(actuating[i], status)
       THEN /\ Len(resetTimers) < MaxResetTimers
            /\ resetTimers' = Append(resetTimers, [UUID |-> actuating[i].UUID,
                                                   delay |-> actuating[i].duration])
            /\ events' = {"reset scheduled"}
       ELSE /\ UNCHANGED resetTimers
            /\ events' = {}
  /\ sent' = <<>> /\ onPushed' = <<>>
  /\ response' = NoResponse /\ request' = NoRequest /\ warnings' = <<>>
  /\ UNCHANGED <<constVars, engineVars, provisionVars, discoveryVars, launched>>

\* the cache with the state of every record of a UUID set to false
RevertState(cache, uuid) ==
  [k \in 1..Len(cache) |->
     IF cache[k].UUID = uuid THEN [cache[k] EXCEPT !.state = "false"] ELSE cache[k]]

\* The reset timer i fires after its delay: HomeKit is shown the switch off
\* and the cached state becomes false
MomentaryReset(i) ==
  /\ i \in 1..Len(resetTimers)
  /\ resetTimers' = RemoveAt(resetTimers, i)
  /\ accessoriesRuntimeCache' = RevertState(accessoriesRuntimeCache, resetTimers[i].UUID)
  /\ onPushed' = <<[UUID |-> resetTimers[i].UUID, value |-> FALSE]>>
  /\ events' = {"momentary reset"}
  /\ sent' = <<>> /\ answered' = NoAnswer /\ got' = NoValue
  /\ response' = NoResponse /\ request' = NoRequest /\ warnings' = <<>>
  /\ UNCHANGED <<actuating, constVars, entryTriggerDelayTimerHandle, entryTimers,
                 timersStarted, armedAtStart, ssState, provisionVars, discoveryVars,
                 launched>>

\* ------------------------------------------------------- specifications
\* Discovery and provisioning when every search window sees a panel answer
\* and every settings PUT reaches its panel
Discovery ==
  \/ DidFinishLaunching
  \/ \E k \in 1..2, p \in Panels : SsdpResponse(k, p)
  \/ \E p \in Panels : FetchResolved(p, TRUE)
  \/ PassTimeout

\* The alarm scenarios: panels are discovered and provisioned, the V1-V2 panel
\* reports its contact sensor, HomeKit arms and disarms, the entry delay runs
Next ==
  \/ Discovery
  \/ \E req \in AlarmCallbacks : RespondUpdate(req)
  \/ \E req \in AlarmCallbacks : RespondTokenInvalid(req)
  \/ \E v \in 0..3 : SetTarget(v)
  \/ GetSecuritySystemState
  \/ EntryDelayExpires

Spec == Init /\ [][Next]_vars

\* The server scenarios: panels are discovered and provisioned, also after
\* search windows without an answer, and requests arrive with every kind of
\* authorization
NextServer ==
  \/ Discovery
  \/ PassTimeoutEmpty
  \/ \E req \in ServerRequests : RespondTokenMissing(req)
  \/ \E req \in ServerRequests : RespondUpdate(req)
  \/ \E req \in ServerRequests : RespondQuery(req)
  \/ \E req \in ServerRequests : RespondTokenInvalid(req)

SpecServer == Init /\ [][NextServer]_vars

\* The silent-network scenarios: no panel ever answers a search; requests
\* arrive without a token or with one the plugin never issued, and every
\* search window times out in the end
NextSilent ==
  \/ DidFinishLaunching
  \/ PassTimeoutEmpty
  \/ \E req \in ServerRequests : RespondTokenMissing(req)
  \/ \E req \in ServerRequests : RespondTokenInvalid(req)

SpecSilent == Init /\ [][NextSilent]_vars /\ WF_vars(PassTimeoutEmpty)

\* The query scenarios: panels are discovered and provisioned, HomeKit sets
\* the switches and the panels ask for their state
NextQuery ==
  \/ Discovery
  \/ \E u \in SwitchUUIDs, v \in BOOLEAN : SetSwitchState(u, v)
  \/ \E req \in Queries : RespondQuery(req)

SpecQuery == Init /\ [][NextQuery]_vars

\* The compilation scenarios: for every enumerated zone configuration the
\* panels are discovered and provisioned, and provisioned again when a
\* callback with an unknown token makes the plugin rediscover them
NextZones ==
  \/ Discovery
  \/ \E req \in StaleCallbacks : RespondTokenInvalid(req)

SpecZones ==
  /\ (\E cfg \in ZoneConfigs : InitWith(cfg, {FactorySettings}))
  /\ [][NextZones]_vars

\* The cloud scenarios: one of the panels discovered (and rediscovered after
\* a callback with an unknown token) was provisioned by the vendor cloud
SpecCloud ==
  /\ InitWith(MainConfig, CloudSettings)
  /\ [][NextZones]_vars

\* The sensor scenarios: the V1-V2 panel is discovered and provisioned, and
\* provisioned again after a callback with an unknown token; it reports its
\* sensors, HomeKit arms and disarms, the entry delay runs
NextSensors ==
  \/ DidFinishLaunching
  \/ SsdpResponse(1, "v1")
  \/ FetchResolved("v1", TRUE)
  \/ PassTimeout
  \/ \E req \in StaleCallbacks : RespondTokenInvalid(req)
  \/ \E req \in {Request("PUT", "v1", Bearer(1), pin, "", 1) : pin \in {1, 2, 5}}
                  \cup {Request("PUT", "v1", Bearer(1), 5, "", 0)}
                  \cup {[Request("PUT", "v1", Bearer(1), 6, "", NoNum) EXCEPT !.temp = 21]} :
       RespondUpdate(req)
  \/ \E v \in 0..3 : SetTarget(v)
  \/ EntryDelayExpires

SpecSensors ==
  /\ InitWith(SensorConfig, {FactorySettings})
  /\ [][NextSensors]_vars

\* The momentary scenarios: the V1-V2 panel is discovered and provisioned,
\* HomeKit sets its switches, the panel answers the PUTs or not, the reset
\* timers fire
NextPulse ==
  \/ DidFinishLaunching
  \/ SsdpResponse(1, "v1")
  \/ FetchResolved("v1", TRUE)
  \/ PassTimeout
  \/ \E u \in SwitchUUIDs, v \in BOOLEAN : SetSwitchState(u, v)
  \/ \E i \in 1..MaxInFlight, status \in PanelAnswers : ActuateResolved(i, status)
  \/ \E i \in 1..MaxResetTimers : MomentaryReset(i)

SpecPulse ==
  /\ InitWith(PulseConfig, {FactorySettings})
  /\ [][NextPulse]_vars

\* ----------------------------------------------------------- properties
\* the commands of the last step that address a zone with a requested value
Commanded(uuid, value) ==
  \E j \in 1..Len(sent) : sent[j].UUID = uuid /\ sent[j].value = value

\* C1: at most one entry-delay timer is pending at any time, and between two
\* disarms at most one timer is started however many qualifying sensor
\* changes arrive; the handle is pending exactly while that timer runs.
SingleEntryDelayTimer ==
  /\ entryTimers <= 1
  /\ timersStarted <= 1
  /\ (entryTimers = 1) <=> (entryTriggerDelayTimerHandle = "pending")

\* a qualifying change arrived while the timer was pending and started none
ChangeIgnoredWhilePending ==
  /\ entryTimers = 1
  /\ "change ignored" \in events
  /\ ssState \in {0, 1}

\* C2: while the security system is Disarmed no entry-delay timer is pending
\* and none is counted as started: the disarm that found one pending has
\* cancelled it, so nothing can trigger the system until a new timer starts.
DisarmCancelsEntryDelay ==
  ssState = 3 =>
    /\ entryTimers = 0
    /\ entryTriggerDelayTimerHandle = "undefined"
    /\ timersStarted = 0

\* a disarm found a timer pending and cleared it
TimerClearedByDisarm == ssState = 3 /\ "timer cleared" \in events

\* C3: in the step that makes the security system Triggered on expiry of the
\* entry delay, every beeper zone of the runtime cache is commanded off and
\* every siren and strobe zone is commanded on.
TriggerCommandsEveryAlarmZone ==
  (ssState = 4 /\ "timer fired" \in events) =>
    \A i \in 1..Len(accessoriesRuntimeCache) :
      LET rec == accessoriesRuntimeCache[i]
      IN /\ rec.type \in BeeperTypes => Commanded(rec.UUID, FALSE)
         /\ rec.type \in AlarmTypes => Commanded(rec.UUID, TRUE)

\* C4: every step into Triggered is the expiry of the one pending entry-delay
\* timer, which was started while the system was armed (0, 1 or 2), and the
\* system is still armed, not Disarmed, when it expires.
TriggeredOnlyByArmedTimer ==
  [][(ssState' = 4 /\ ssState # 4) =>
       /\ entryTimers = 1
       /\ entryTimers' = 0
       /\ armedAtStart
       /\ ssState \in {0, 1, 2}]_vars

\* the entry delay expired and the system is Triggered
TriggeredByTimer ==
  /\ ssState = 4
  /\ entryTriggerDelayTimerHandle = "fired"
  /\ "timer fired" \in events

\* the level a command has to carry for a trigger setting and a value
LevelFor(trigger, value) ==
  IF trigger = "low" THEN (IF value THEN 0 ELSE 1) ELSE (IF value THEN 1 ELSE 0)

\* C7: every command actuateAccessory sends carries the level of the zone's
\* polarity: low gives 0 for on and 1 for off, high or unset gives 1 for on
\* and 0 for off; a Pro switch zone is addressed by its zone name.
ActuationLevelFollowsPolarity ==
  \A j \in 1..Len(sent) :
    LET z == ZoneOfUUID(config, sent[j].UUID)
    IN /\ sent[j].state = LevelFor(z.trigger, sent[j].value)
       /\ (sent[j].panel = "pro" /\ "switch" \in ZONES(z.zoneNumber))
            => sent[j].zone = z.zoneNumber

\* the Pro siren on alarm1, trigger low, is switched on with level 0, the
\* strobe, trigger high, is switched on with level 1 and the beeper, without
\* a trigger setting, is switched off with level 0
LowSirenSwitchedOn ==
  /\ \E j \in 1..Len(sent) :
       sent[j].zone = "alarm1" /\ sent[j].value = TRUE /\ sent[j].state = 0
  /\ \E j \in 1..Len(sent) :
       ZoneOfUUID(config, sent[j].UUID).trigger = "high" /\ sent[j].state = 1
  /\ \E j \in 1..Len(sent) :
       ZoneOfUUID(config, sent[j].UUID).trigger = UndefS /\ sent[j].state = 0

\* the tokens the settings payloads sent so far carry
IssuedTokens == {provisioned[i].token : i \in 1..Len(provisioned)}

\* C5: a request is answered 200 only if the token of its authorization
\* header is one a provisioning call issued; a request without the header is
\* answered 401 'token missing', one with another token 401 'token not valid';
\* a step that answers 401 changes neither the runtime cache nor the state of
\* the security system.
OnlyIssuedTokensAccepted ==
  [][request' # NoRequest =>
       /\ response'.status \in {200, 401}
       /\ response'.status = 200 =>
            request'.auth # NoAuth /\ TokenOf(request'.auth) \in IssuedTokens
       /\ request'.auth = NoAuth =>
            /\ response'.status = 401
            /\ response'.reason = "Authorization failed, token missing"
       /\ (request'.auth # NoAuth /\ TokenOf(request'.auth) \notin IssuedTokens) =>
            /\ response'.status = 401
            /\ response'.reason = "Authorization failed, token not valid"
       /\ response'.status = 401 => UNCHANGED <<accessoriesRuntimeCache, ssState>>]_vars

\* a callback with a token never issued is rejected after panels were
\* provisioned and zones are in the cache
UnissuedTokenRejected ==
  /\ request.method = "PUT"
  /\ request.auth = Bearer(MaxTokens + 1)
  /\ response.status = 401
  /\ provisioned # <<>>
  /\ accessoriesRuntimeCache # <<>>

\* C6: at most one search window is open at any time and the discovery flag
\* is true while one is open; a request with an unrecognised token starts a
\* discovery pass only in a state where the flag is false.
SingleDiscoveryPass ==
  [][/\ Len(passes') <= 1
     /\ passes' # <<>> => ssdpDiscovering'
     /\ "rediscovering" \in events' => ~ssdpDiscovering]_vars

\* a request with an unrecognised token arrived while a pass was in flight
\* and started none
RediscoverySkipped ==
  /\ response.status = 401
  /\ response.reason = "Authorization failed, token not valid"
  /\ "rediscovering" \notin events
  /\ Len(passes) = 1
  /\ ssdpDiscoverAttempts > 0

\* is a cached state logically on?
LogicallyOn(state) == state \in {"n1", "true"}

\* C8: the answer to a GET for a switch-kind zone of the runtime cache carries
\* a state, and it is the level of the zone's polarity for the cached state:
\* low gives 1 when logically off (unset, 0, false) and 0 when logically on
\* (1, true), high or unset gives 0 when off and 1 when on.
QueryReportsSwitchLevel ==
  (request.method = "GET" /\ response.status = 200) =>
    LET i == CacheFind(accessoriesRuntimeCache, <<request.id, RequestZone(request)>>)
    IN (i # 0 /\ accessoriesRuntimeCache[i].type \in ActuatorTypes) =>
         /\ response.state # NoNum
         /\ response.state = LevelFor(accessoriesRuntimeCache[i].trigger,
                                      LogicallyOn(accessoriesRuntimeCache[i].state))

\* the elements of all four arrays of a settings payload
PayloadElements(pl) == pl.sensors \o pl.dht_sensors \o pl.ds18b20_sensors \o pl.actuators

\* the number of payload elements that name the pin or zone of a zone number
ElementsFor(pl, zn) ==
  LET els == PayloadElements(pl)
  IN Cardinality({i \in 1..Len(els) :
                    IF PanelObject(pl.panel).model THEN els[i].zone = zn
                    ELSE els[i].pin = ZONES_TO_PINS(zn)})

\* the positions of a zone number in a list of configured zones
Occurrences(zones, zn) == {j \in 1..Len(zones) : zones[j].zoneNumber = zn}

\* C9: after a provisioning call, a zone number that two or more zones of the
\* panel share has exactly one element in the payload arrays, and one
\* duplicate warning was logged for each occurrence after the first.
DuplicateZoneCompiledOnce ==
  "provisioned" \in events =>
    LET pl == provisioned[Len(provisioned)]
        zones == config[pl.panel]
    IN \A i \in 1..Len(zones) :
         LET zn == zones[i].zoneNumber
             occ == Occurrences(zones, zn)
         IN Cardinality(occ) >= 2 =>
              /\ ElementsFor(pl, zn) = 1
              /\ Cardinality({w \in 1..Len(warnings) :
                                warnings[w] = [kind |-> "duplicate", zoneNumber |-> zn]})
                   = Cardinality(occ) - 1

\* C10: two settings payloads sent to the same panel carry the same sensors,
\* dht_sensors, ds18b20_sensors and actuators arrays, element by element, and
\* differ in the token only.
RecompilationIdentical ==
  \A i, j \in 1..Len(provisioned) :
    (i < j /\ provisioned[i].panel = provisioned[j].panel) =>
      /\ provisioned[i].sensors = provisioned[j].sensors
      /\ provisioned[i].dht_sensors = provisioned[j].dht_sensors
      /\ provisioned[i].ds18b20_sensors = provisioned[j].ds18b20_sensors
      /\ provisioned[i].actuators = provisioned[j].actuators
      /\ provisioned[i].token # provisioned[j].token
      /\ [provisioned[i] EXCEPT !.token = 0] = [provisioned[j] EXCEPT !.token = 0]

\* the V1-V2 panel was provisioned twice with a configuration of a sensor and
\* an actuator
ProvisionedTwice ==
  /\ Len(provisioned) = 2
  /\ provisioned[1].panel = "v1" /\ provisioned[2].panel = "v1"
  /\ provisioned[2].sensors # <<>>
  /\ provisioned[2].actuators # <<>>
  /\ accessoriesRuntimeCache # <<>>

\* the pulse sequence of a zone with duration d, repeat count r and pause p
\* takes d*r + p*(r-1) milliseconds, one pulse takes d
ExpectedRevert(z) ==
  IF z.pulseRepeat > 0 /\ z.pulsePause > 0
    THEN z.pulseDuration * z.pulseRepeat + z.pulsePause * (z.pulseRepeat - 1)
    ELSE z.pulseDuration

\* a zone whose pulse sequence ends: a duration with a positive repeat count
\* and a pause, or a duration alone
FinitePulse(z) ==
  /\ z.pulseDuration > 0
  /\ \/ z.pulseRepeat > 0 /\ z.pulsePause > 0
     \/ z.pulseRepeat = 0 /\ z.pulsePause = 0

\* C11: a command that switches a zone with a finite pulse sequence on carries
\* momentary = d and, with a repeat count and a pause, times = r and pause = p;
\* when the panel answers its PUT with 200 a reset timer of d*r + p*(r-1)
\* milliseconds (d with the duration alone) is scheduled for the zone; and the
\* step in which a reset timer fires makes every cached state of the zone
\* false and shows HomeKit the switch off.
MomentaryRevertsAfterDuration ==
  [][/\ \A j \in 1..Len(sent') :
          LET z == ZoneOfUUID(config, sent'[j].UUID)
          IN (sent'[j].value /\ FinitePulse(z)) =>
               /\ sent'[j].momentary = z.pulseDuration
               /\ z.pulseRepeat > 0 =>
                    sent'[j].times = z.pulseRepeat /\ sent'[j].pause = z.pulsePause
     /\ (answered'.status = 200 /\ FinitePulse(ZoneOfUUID(config, answered'.UUID))) =>
          resetTimers' =
            Append(resetTimers,
                   [UUID |-> answered'.UUID,
                    delay |-> ExpectedRevert(ZoneOfUUID(config, answered'.UUID))])
     /\ (answered' # NoAnswer /\ answered'.status # 200) => resetTimers' = resetTimers
     /\ "momentary reset" \in events' =>
          \E i \in 1..Len(resetTimers) :
            /\ resetTimers' = RemoveAt(resetTimers, i)
            /\ onPushed' = <<[UUID |-> resetTimers[i].UUID, value |-> FALSE]>>
            /\ \A k \in 1..Len(accessoriesRuntimeCache') :
                 accessoriesRuntimeCache'[k].UUID = resetTimers[i].UUID =>
                   accessoriesRuntimeCache'[k].state = "false"]_vars

\* the switch on zone 1 was switched on twice, two timers of 4000 ms were
\* scheduled, the first one has fired and the state is off again
RevertedAfterFourSeconds ==
  /\ "momentary reset" \in events
  /\ onPushed = <<[UUID |-> ZoneUUID("v1", "1"), value |-> FALSE]>>
  /\ resetTimers = <<[UUID |-> ZoneUUID("v1", "1"), delay |-> 4000]>>
  /\ accessoriesRuntimeCache[CacheFind(accessoriesRuntimeCache, ZoneUUID("v1", "1"))].state
       = "false"

\* the zones whose switch settings repeat the pulse for ever
InfiniteZones ==
  {u \in ConfigUUIDs(config) : ZoneOfUUID(config, u).pulseRepeat = -1}

\* the cached states of a zone
CachedStates(cache, u) == {cache[k].state : k \in {j \in 1..Len(cache) : cache[j].UUID = u}}

\* C12: for a zone whose repeat count is -1 no reset timer is ever scheduled,
\* whatever the panel answers; its cached state leaves true and HomeKit is
\* shown it off only in a step that actuates it (a set of the switch or a
\* disarm), never in the step of a timer.
InfiniteRepeatNeverReverts ==
  [][\A u \in InfiniteZones :
       /\ \A i \in 1..Len(resetTimers') : resetTimers'[i].UUID # u
       /\ answered'.UUID = u => resetTimers' = resetTimers
       /\ (\/ ("true" \in CachedStates(accessoriesRuntimeCache, u)
               /\ "true" \notin CachedStates(accessoriesRuntimeCache', u))
           \/ \E j \in 1..Len(onPushed') : onPushed'[j] = [UUID |-> u, value |-> FALSE])
          => /\ "momentary reset" \notin events'
             /\ \E j \in 1..Len(onPushed') : onPushed'[j] = [UUID |-> u, value |-> FALSE]]_vars

\* the panel answered 200 to the command that switched the zone with repeat
\* count -1 on; no timer is pending and the state is still on
InfinitePulseStaysOn ==
  /\ answered.status = 200
  /\ answered.repeat = -1
  /\ answered.UUID \in InfiniteZones
  /\ resetTimers = <<>>
  /\ CachedStates(accessoriesRuntimeCache, answered.UUID) = {"true"}

\* C13: when no panel answers, a retry of an empty pass raises the attempt
\* counter by one and never beyond 5; the timeout that finds the counter at 5
\* schedules no further pass, clears the discovery flag and resets the
\* counter, so a run that starts with the counter at 0 has at most 5 retries;
\* with no pass open a new one is started only by the launch or by a request
\* with an unrecognised token; and every open pass leads to a state without
\* an open pass and with the flag false.
EmptyDiscoveryTerminates ==
  /\ [][/\ "retrying" \in events' =>
             /\ ssdpDiscoverAttempts' = ssdpDiscoverAttempts + 1
             /\ ssdpDiscoverAttempts' <= 5
             /\ Len(passes') = 1 /\ ssdpDiscovering'
        /\ "gave up" \in events' =>
             /\ ssdpDiscoverAttempts = 5
             /\ ssdpDiscoverAttempts' = 0
             /\ passes' = <<>> /\ ~ssdpDiscovering'
        /\ (passes = <<>> /\ passes' # <<>>) =>
             /\ ssdpDiscoverAttempts = 0
             /\ ~launched \/ "rediscovering" \in events'
        /\ (passes = <<>> /\ launched) => ~ssdpDiscovering]_vars
  /\ (passes # <<>>) ~> (passes = <<>> /\ ~ssdpDiscovering /\ ssdpDiscoverAttempts = 0)

\* the sixth empty pass of a run timed out and discovery gave up
DiscoveryGaveUp ==
  /\ "gave up" \in events
  /\ passes = <<>>
  /\ ~ssdpDiscovering
  /\ ssdpDiscoverAttempts = 0

\* C14: when the timeout of a pass that found a panel has run, the attempt
\* counter is 0.
CounterResetWhenPanelFound ==
  "discovery complete" \in events => ssdpDiscoverAttempts = 0

\* C15: when the status fetch of a panel resolves and the panel reports a REST
\* endpoint with the address and the port of this listener, the step issues
\* no token and sends no settings.
SameEndpointNotProvisioned ==
  [][\A p \in Panels :
       (/\ p \in fetching /\ p \notin fetching'
        /\ panelSettings[p] = SettingsRest(ListenerIP, ListenerPort))
       => /\ listenerAuth' = listenerAuth
          /\ provisioned' = provisioned
          /\ "provisioned" \notin events']_vars

\* the tokens of the list of accepted tokens
AcceptedTokens(auth) == {auth[i] : i \in 1..Len(auth)}

CloudPanelNeverProvisioned ==
  [][/\ \A i \in 1..Len(provisioned') :
          panelSettings'[provisioned'[i].panel].endpoint_type # "aws_iot"
     /\ \A p \in Panels :
          (p \in fetching /\ p \notin fetching' /\ panelSettings[p].endpoint_type = "aws_iot")
          => /\ listenerAuth' = listenerAuth
             /\ provisioned' = provisioned
             /\ panelSettings' = panelSettings
             /\ accessoriesRuntimeCache' = accessoriesRuntimeCache
             /\ events' = {"cannot provision"}]_vars

\* the status of the cloud panel was fetched and the error logged, after the
\* other panel had been provisioned
CloudPanelRefused ==
  /\ "cannot provision" \in events
  /\ provisioned # <<>>
  /\ \E p \in Panels : panelSettings[p].endpoint_type = "aws_iot"

\* C18: in the step in which HomeKit sets the target Disarmed, every beeper,
\* siren and strobe zone of the runtime cache is sent a command that switches
\* it off with the level of its polarity.
DisarmSwitchesEveryAlarmZoneOff ==
  ("target set" \in events /\ ssState = 3) =>
    \A i \in 1..Len(accessoriesRuntimeCache) :
      LET rec == accessoriesRuntimeCache[i]
      IN rec.type \in BeeperTypes \cup AlarmTypes =>
           \E j \in 1..Len(sent) :
             /\ sent[j].UUID = rec.UUID
             /\ sent[j].value = FALSE
             /\ sent[j].state = LevelFor(rec.trigger, FALSE)

\* the first cache record of the zone a request addresses (0 if none)
RequestRecord(cache, req) == CacheFind(cache, <<req.id, RequestZone(req)>>)

\* C19: a step that starts the entry-delay timer handles a callback for a zone
\* of the runtime cache that is neither a temperature nor a humidity zone and
\* whose triggerable modes contain the state the security system had when the
\* callback arrived; the step leaves that state alone.
TimerStartedOnlyByTriggerableZone ==
  [][("timer started" \in events' \/ entryTimers' > entryTimers) =>
       /\ request'.method \in {"PUT", "POST"}
       /\ RequestRecord(accessoriesRuntimeCache, request') # 0
       /\ LET rec == accessoriesRuntimeCache[RequestRecord(accessoriesRuntimeCache, request')]
          IN /\ rec.type \notin {"temperature", "humidtemp"}
             /\ StringOf(ssState) \in rec.triggerableModes
       /\ ssState' = ssState]_vars

\* the contact sensor on zone 3, triggerable in Away, reported open while the
\* system was armed Away and started the timer
TimerStartedByContact ==
  /\ "timer started" \in events
  /\ entryTimers = 1
  /\ request.pin = 5 /\ request.state = 1
  /\ ssState = 1

\* the commands of the last step that switch a zone on
OnCommands(uuid) == {j \in 1..Len(sent) : sent[j].UUID = uuid /\ sent[j].value = TRUE}

\* C20: a step that handles a callback reporting a zone active while the
\* security system is in a state the zone is not triggerable in sends, for a
\* contact or motion zone with the audible beep set, exactly one command to
\* every beeper zone of the runtime cache, which switches it on, and sends
\* nothing for any other zone; it starts no entry-delay timer and leaves the
\* state of the security system alone.
NonQualifyingChangeBeepsOnce ==
  [][(/\ request'.method \in {"PUT", "POST"} /\ response'.status = 200
      /\ request'.state = 1
      /\ RequestRecord(accessoriesRuntimeCache, request') # 0) =>
       LET rec == accessoriesRuntimeCache[RequestRecord(accessoriesRuntimeCache, request')]
       IN StringOf(ssState) \notin rec.triggerableModes =>
            /\ entryTimers' = entryTimers
            /\ "timer started" \notin events'
            /\ ssState' = ssState
            /\ IF rec.type \in {"contact", "motion"} /\ rec.audibleBeep
                 THEN \A i \in 1..Len(accessoriesRuntimeCache) :
                        accessoriesRuntimeCache[i].type \in BeeperTypes =>
                          Cardinality(OnCommands(accessoriesRuntimeCache[i].UUID)') = 1
                 ELSE sent' = <<>>]_vars

\* the arming targets a configuration calls for: Disarm and Away, and Stay
\* and Night when a zone lists the mode among its triggerable modes
ConfiguredTargets(cfg) ==
  LET listed(m) == \E p \in Panels : \E i \in 1..Len(cfg[p]) :
                     m \in cfg[p][i].triggerableModes
  IN {3, 1} \cup (IF listed("0") THEN {0} ELSE {}) \cup (IF listed("2") THEN {2} ELSE {})

\* C21: once the plugin is launched the arming targets offered are Disarm and
\* Away, plus Stay exactly when a zone of the current configuration lists
\* Stay, plus Night exactly when a zone of the current configuration lists
\* Night.
TargetsFollowConfiguration ==
  launched => validSecuritySystemStates = ConfiguredTargets(config)

\* The configuration of the invalid-zone scenarios.  V1-V2 panel: a switch on
\* zone 6 (no actuator zone) with a trigger, a temperature sensor on zone 7
\* (no such zone) with a poll interval, a contact sensor on zone 8 (no such
\* zone) without settings, a contact sensor on zone 3.  Pro panel: a siren on
\* the zone named out with a trigger, a switch on zone 9 (sensor only) with a
\* trigger, a siren on alarm1.
InvalidZonesConfig ==
  [v1 |-> <<SwitchZone("6", "switch", "high"),
            Zone("7", "temperature", "true", FALSE, FALSE, UndefS, {}, 3, 0, 0, 0),
            SensorZone("8", "contact", FALSE, FALSE, {}),
            SensorZone("3", "contact", FALSE, FALSE, {"1"})>>,
   pro |-> <<SwitchZone("out", "siren", "low"),
             SwitchZone("9", "switch", "high"),
             SwitchZone("alarm1", "siren", "low")>>]

\* The invalid-zone scenarios: the panels are discovered and provisioned, and
\* provisioned again after a callback with an unknown token
SpecInvalidZones ==
  /\ InitWith(InvalidZonesConfig, {FactorySettings})
  /\ [][NextZones]_vars

\* C22: every element of the sensors, dht_sensors, ds18b20_sensors and
\* actuators arrays of every settings payload sent carries a pin or a zone,
\* and every configured zone whose number and type are legal for its panel
\* has its element in the payload.
EveryElementNamesPinOrZone ==
  \A i \in 1..Len(provisioned) :
    LET pl == provisioned[i]
        els == PayloadElements(pl)
        zones == config[pl.panel]
    IN /\ \A j \in 1..Len(els) : els[j].pin # NoNum \/ els[j].zone # ""
       /\ \A k \in 1..Len(zones) :
            (AssignPinOrZone(PanelObject(pl.panel).model, zones[k]).warn = ""
               /\ zones[k].enabled = "true") =>
              ElementsFor(pl, zones[k].zoneNumber) >= 1

\* The USN headers a panel may announce: the expected form with its UUID, the
\* expected form with an empty UUID or with a string that is no UUID, and a
\* header that lacks the 'uuid:' prefix and the '::' separator
UsnSamples(p) ==
  {WellFormedUsn(p), Usn("uuid:", "", "::"), Usn("uuid:", "not-a-uuid", "::"), Usn("", p, "")}

\* The malformed-USN scenarios: panels whose discovery responses carry any of
\* these headers are discovered, and discovered again after a callback with
\* an unknown token
SpecMalformed ==
  /\ InitUsn(MainConfig, {FactorySettings},
             {u \in [Panels -> UNION {UsnSamples(p) : p \in Panels}] :
                \A p \in Panels : u[p] \in UsnSamples(p)})
  /\ [][NextZones]_vars

\* C23: a panel whose USN does not yield its UUID is never written to
\* config.json and never sent a settings payload, and no step that handles a
\* discovery response ends with an exception.
MalformedPanelSkipped ==
  /\ written \subseteq Panels
  /\ \A i \in 1..Len(provisioned) :
       usn[provisioned[i].panel] = WellFormedUsn(provisioned[i].panel)
  /\ "uncaught exception" \notin events
  /\ "unhandled rejection" \notin events

\* The configuration of the disabled-zone scenarios: on the V1-V2 panel a
\* motion sensor on zone 2 that is disabled, a contact sensor on zone 3 that
\* is enabled, a beeper on zone 5 whose settings do not mention enabled
DisabledConfig ==
  [v1 |-> <<Zone("2", "motion", "false", FALSE, FALSE, UndefS, {"1"}, 0, 0, 0, 0),
            SensorZone("3", "contact", FALSE, FALSE, {"1"}),
            Zone("5", "beeper", UndefS, FALSE, FALSE, UndefS, {}, 0, 0, 0, 0)>>,
   pro |-> <<>>]

\* The disabled-zone scenarios: the panels are discovered and provisioned, and
\* provisioned again after a callback with an unknown token
SpecDisabled ==
  /\ InitWith(DisabledConfig, {FactorySettings})
  /\ [][NextZones]_vars

\* a zone has an element in the payload, a record in the runtime cache and a
\* registered accessory
Compiled(pl, z) ==
  /\ ElementsFor(pl, z.zoneNumber) >= 1
  /\ CacheFind(accessoriesRuntimeCache, ZoneUUID(pl.panel, z.zoneNumber)) # 0
  /\ ZoneUUID(pl.panel, z.zoneNumber) \in registered

\* a zone has none of them
Released(pl, z) ==
  /\ ElementsFor(pl, z.zoneNumber) = 0
  /\ CacheFind(accessoriesRuntimeCache, ZoneUUID(pl.panel, z.zoneNumber)) = 0
  /\ ZoneUUID(pl.panel, z.zoneNumber) \notin registered

\* C24: after a provisioning call, a zone of the panel that is configured
\* with enabled false has no element in the payload, no record in the runtime
\* cache and no registered accessory, and every other zone of the panel has
\* all three.
DisabledZonesReleased ==
  "provisioned" \in events =>
    LET pl == provisioned[Len(provisioned)]
        zones == config[pl.panel]
    IN \A k \in 1..Len(zones) :
         IF zones[k].enabled = "false"
           THEN Released(pl, zones[k])
           ELSE Compiled(pl, zones[k])

\* the state a callback leaves in the record of a binary zone: the state of
\* the body, swapped when the zone is inverted
AdjustedState(rec, req) ==
  IF rec.invert THEN (IF req.state = 0 THEN 1 ELSE 0) ELSE req.state

\* C25: a step that answers a PUT or POST with 200 for a zone that has a
\* record in the runtime cache stores what the body reports in that record
\* (the adjusted state of a binary zone, the temperature of a temperature
\* zone), and starts the entry-delay timer when the zone is binary, reports
\* a state other than its resting state, is triggerable in the current state
\* of the security system and no timer was started since the last disarm.
CallbackUpdatesCacheAndEngine ==
  [][(/\ request'.method \in {"PUT", "POST"} /\ response'.status = 200
      /\ RequestRecord(accessoriesRuntimeCache, request') # 0) =>
       LET i == RequestRecord(accessoriesRuntimeCache, request')
           rec == accessoriesRuntimeCache[i]
       IN /\ rec.type \in SensorTypes =>
               accessoriesRuntimeCache'[i].state = NumState(AdjustedState(rec, request'))
          /\ rec.type \in Ds18b20Types => accessoriesRuntimeCache'[i].temp = request'.temp
          /\ (/\ rec.type \in SensorTypes
              /\ AdjustedState(rec, request') # (IF rec.invert THEN 1 ELSE 0)
              /\ StringOf(ssState) \in rec.triggerableModes
              /\ entryTriggerDelayTimerHandle = "undefined") =>
               "timer started" \in events']_vars

\* a callback for a binary zone with a restored accessory reports a state
\* other than the resting state while the security system is armed in a mode
\* the zone is triggerable in
QualifyingChange(req) ==
  /\ req.method \in {"PUT", "POST"}
  /\ <<req.id, RequestZone(req)>> \in DOMAIN accessories
  /\ RequestRecord(accessoriesRuntimeCache, req) # 0
  /\ LET rec == accessoriesRuntimeCache[RequestRecord(accessoriesRuntimeCache, req)]
     IN /\ rec.type \in SensorTypes
        /\ AdjustedState(rec, req) # (IF rec.invert THEN 1 ELSE 0)
        /\ ssState \in {0, 1, 2}
        /\ StringOf(ssState) \in rec.triggerableModes

\* C26: a step that handles a qualifying change while no entry-delay timer is
\* scheduled starts one and sends every beeper zone a command that switches
\* it on, whatever happened before, also when an earlier timer fired and the
\* system was armed again without a disarm in between.
QualifyingChangeStartsTimer ==
  [][(response'.status = 200 /\ QualifyingChange(request') /\ entryTimers = 0) =>
       /\ "timer started" \in events'
       /\ entryTimers' = 1
       /\ \A i \in 1..Len(accessoriesRuntimeCache) :
            accessoriesRuntimeCache[i].type \in BeeperTypes =>
              Commanded(accessoriesRuntimeCache[i].UUID, TRUE)']_vars

\* The level scenarios: the panels are discovered and provisioned, HomeKit
\* sets the switches, arms Away and disarms, and the panels ask for the state
\* of their switch zones
NextLevels ==
  \/ DidFinishLaunching
  \/ \E p \in Panels : SsdpResponse(1, p)
  \/ \E p \in Panels : FetchResolved(p, TRUE)
  \/ PassTimeout
  \/ \E u \in SwitchUUIDs, v \in BOOLEAN : SetSwitchState(u, v)
  \/ \E v \in {1, 3} : SetTarget(v)
  \/ \E req \in Queries : RespondQuery(req)

SpecLevels == Init /\ [][NextLevels]_vars

\* the positions of the commands of the last step that address a zone
CommandsFor(uuid) == {j \in 1..Len(sent) : sent[j].UUID = uuid}

\* the physical level of the last of them
LastLevelSent(uuid) ==
  sent[CHOOSE j \in CommandsFor(uuid) : \A k \in CommandsFor(uuid) : k <= j].state

\* C27: a GET query for a switch zone that is answered right after a step
\* that sent the zone actuation commands (by setSwitchState or by the
\* security system) reports the physical level of the last of those commands.
QueryReportsLastActuation ==
  [][(/\ request'.method = "GET" /\ response'.status = 200
      /\ CommandsFor(<<request'.id, RequestZone(request')>>) # {}) =>
       response'.state = LastLevelSent(<<request'.id, RequestZone(request')>>)]_vars

\* C28: when the last step issued a command for a zone and a reset timer of
\* that zone, scheduled before that command was issued, fires now, the
\* cached state of the zone is left as the command set it and HomeKit is not
\* shown the switch off.
LaterActuationSupersedesReset ==
  [][("momentary reset" \in events' /\ CommandsFor(onPushed'[1].UUID) # {}) =>
       /\ \A k \in 1..Len(accessoriesRuntimeCache) :
            accessoriesRuntimeCache[k].UUID = onPushed'[1].UUID =>
              accessoriesRuntimeCache'[k].state = accessoriesRuntimeCache[k].state
       /\ onPushed'[1].value = sent[Len(sent)].value]_vars

\* The configuration of the ordering scenarios: a contact sensor on zone 3 of
\* both panels, inverted on the V1-V2 panel, and a motion sensor on zone 1 of
\* the V1-V2 panel; no zone is triggerable
OrderConfig ==
  [v1 |-> <<SensorZone("3", "contact", TRUE, FALSE, {}),
            SensorZone("1", "motion", FALSE, FALSE, {})>>,
   pro |-> <<SensorZone("3", "contact", FALSE, FALSE, {})>>]

\* The ordering scenarios: the panels are discovered and provisioned, and
\* provisioned again after a callback with an unknown token; their callbacks
\* arrive in any order
NextOrder ==
  \/ Discovery
  \/ \E req \in StaleCallbacks : RespondTokenInvalid(req)
  \/ \E req \in {Request("PUT", "v1", Bearer(1), pin, "", st) : pin \in {1, 5}, st \in {0, 1}}
                  \cup {Request("POST", "pro", Bearer(1), NoNum, "3", st) : st \in {0, 1}} :
       RespondUpdate(req)

SpecOrder ==
  /\ InitWith(OrderConfig, {FactorySettings})
  /\ [][NextOrder]_vars

RecordsOf(uuid) ==
  {k \in 1..Len(accessoriesRuntimeCache) : accessoriesRuntimeCache[k].UUID = uuid}

\* C30: after a provisioning call, the newest cache record of every zone of
\* the panel that had a record before holds the state, the temperature and
\* the humidity of the record before it.
ValuesCarriedOver ==
  "provisioned" \in events =>
    \A j \in 1..Len(accessoriesRuntimeCache) :
      LET rec == accessoriesRuntimeCache[j]
          before == {k \in RecordsOf(rec.UUID) : k < j}
      IN (/\ rec.panel = provisioned[Len(provisioned)].panel
          /\ before # {}
          /\ \A k \in RecordsOf(rec.UUID) : k <= j) =>
           LET old == accessoriesRuntimeCache[CHOOSE k \in before : \A m \in before : m <= k]
           IN /\ rec.state = old.state
              /\ rec.temp = old.temp
              /\ rec.humi = old.humi

\* The configuration of the read scenarios: on the V1-V2 panel a humidity and
\* temperature sensor on zone 1, a motion sensor on zone 2, a contact sensor
\* on zone 3, a temperature sensor on zone 4 and a switch on zone 5
ReadConfig ==
  [v1 |-> <<Zone("1", "humidtemp", "true", FALSE, FALSE, UndefS, {}, 3, 0, 0, 0),
            SensorZone("2", "motion", FALSE, FALSE, {}),
            SensorZone("3", "contact", FALSE, FALSE, {}),
            Zone("4", "temperature", "true", FALSE, FALSE, UndefS, {}, 3, 0, 0, 0),
            SwitchZone("5", "switch", UndefS)>>,
   pro |-> <<>>]

\* The read scenarios: the V1-V2 panel is discovered and provisioned, it
\* reports its sensors, HomeKit sets the switch and reads every accessory
NextReads ==
  \/ DidFinishLaunching
  \/ SsdpResponse(1, "v1")
  \/ FetchResolved("v1", TRUE)
  \/ PassTimeout
  \/ \E req \in {Request("PUT", "v1", Bearer(1), pin, "", st) : pin \in {2, 5}, st \in {0, 1}}
                  \cup {[Request("PUT", "v1", Bearer(1), 6, "", NoNum) EXCEPT !.temp = 21]}
                  \cup {[Request("PUT", "v1", Bearer(1), 1, "", NoNum) EXCEPT !.temp = 21, !.humi = 40]} :
       RespondUpdate(req)
  \/ \E u \in SwitchUUIDs, v \in BOOLEAN : SetSwitchState(u, v)
  \/ \E i \in 1..Len(accessoriesRuntimeCache) :
       GetAccessoryState(accessoriesRuntimeCache[i].UUID)

SpecReads ==
  /\ InitWith(ReadConfig, {FactorySettings})
  /\ [][NextReads]_vars

\* the default of a getter type: false for the boolean kinds, 0 for the others
DefaultState(type) == IF type \in {"motion", "switch"} THEN "false" ELSE "n0"

\* C31: a read of a zone whose record holds no value returns false for a
\* motion or switch zone and 0 for a contact, water, smoke, temperature or
\* humidity zone and stores it in the record; a read of a record that holds
\* the default returns it and leaves the record as it is.
FirstReadYieldsDefault ==
  [][got'.UUID # <<>> =>
       \A k \in 1..Len(accessoriesRuntimeCache) :
         LET rec == accessoriesRuntimeCache[k]
             new == accessoriesRuntimeCache'[k]
         IN rec.UUID = got'.UUID =>
              IF got'.type \in {"motion", "switch", "contact", "water", "smoke"}
                THEN rec.state \in {UndefS, DefaultState(got'.type)} =>
                       /\ got'.state = DefaultState(got'.type)
                       /\ new.state = DefaultState(got'.type)
              ELSE IF got'.type = "temp"
                THEN rec.temp \in {NoNum, 0} => got'.num = 0 /\ new.temp = 0
              ELSE rec.humi \in {NoNum, 0} => got'.num = 0 /\ new.humi = 0]_vars

\* the motion sensor, never reported, was read: false was returned and stored
MotionDefaultStored ==
  /\ got.UUID = ZoneUUID("v1", "2") /\ got.type = "motion" /\ got.state = "false"
  /\ accessoriesRuntimeCache[CacheFind(accessoriesRuntimeCache, ZoneUUID("v1", "2"))].state = "false"
  /\ accessories = << >>

\* the temperature sensor, never reported, was read: 0 was returned and stored
TemperatureDefaultStored ==
  /\ got.UUID = ZoneUUID("v1", "4") /\ got.type = "temp" /\ got.num = 0
  /\ accessoriesRuntimeCache[CacheFind(accessoriesRuntimeCache, ZoneUUID("v1", "4"))].temp = 0

\* the logical value of a stored state: 1 for active or on, 0 for at rest or off
LogicalValue(state) == IF state \in {"n1", "true"} THEN 1 ELSE 0

\* C32: a read of a zone whose record holds a value written by a callback or
\* an actuation returns the logical value of that value and leaves the
\* runtime cache as it is, for every kind of zone.
ReadKeepsWrittenValue ==
  [][got'.UUID # <<>> =>
       \A k \in 1..Len(accessoriesRuntimeCache) :
         LET rec == accessoriesRuntimeCache[k]
         IN (rec.UUID = got'.UUID /\ got'.type \in {"motion", "switch", "contact"}
               /\ rec.state # UndefS)
              => /\ LogicalValue(got'.state) = LogicalValue(rec.state)
                 /\ accessoriesRuntimeCache'[k] = rec]_vars

\* C33: once the security system is Triggered it stays Triggered until a
\* target is set: no other step, a read of the current or target state least
\* of all, changes the state.
TriggeredUntilTargetSet ==
  [][ssState = 4 => (ssState' = 4 \/ "target set" \in events')]_vars

\* C34: whatever number of discovery and provisioning passes ran, the runtime
\* cache holds at most one record for a zone UUID.
OneRecordPerZone ==
  \A i, j \in 1..Len(accessoriesRuntimeCache) :
    accessoriesRuntimeCache[i].UUID = accessoriesRuntimeCache[j].UUID => i = j

\* C35: a pending entry-delay timer goes away only by expiring or by a target
\* of Disarmed being set; a step that sets an armed target leaves the timer
\* and its handle as they are; and the expiry makes the system Triggered
\* whatever mode it is in at that moment.
OnlyDisarmCancelsTimer ==
  [][/\ entryTimers' < entryTimers =>
          \/ "timer fired" \in events'
          \/ "target set" \in events' /\ ssState' = 3
     /\ ("target set" \in events' /\ ssState' \in {0, 1, 2}) =>
          /\ entryTimers' = entryTimers
          /\ entryTriggerDelayTimerHandle' = entryTriggerDelayTimerHandle
          /\ "timer cleared" \notin events'
     /\ "timer fired" \in events' => ssState' = 4 /\ entryTimers' = entryTimers - 1]_vars

\* the target Away was set while a timer was pending and the timer is still
\* pending, though no zone that is triggerable in Away is active: the active
\* motion zone is triggerable in Stay only
ArmedAgainWhileTimerPending ==
  /\ "target set" \in events /\ ssState = 1
  /\ entryTimers = 1 /\ entryTriggerDelayTimerHandle = "pending"
  /\ \E i \in 1..Len(accessoriesRuntimeCache) :
       /\ accessoriesRuntimeCache[i].type = "motion"
       /\ accessoriesRuntimeCache[i].state = "n1"
  /\ \A i \in 1..Len(accessoriesRuntimeCache) :
       "1" \in accessoriesRuntimeCache[i].triggerableModes
         => accessoriesRuntimeCache[i].state # "n1"

\* The configuration of the inversion scenarios: on the V1-V2 panel an
\* inverted contact sensor on zone 3 with the audible beep, a motion sensor
\* on zone 2, both triggerable in Away, and a beeper on zone 5
InvertConfig ==
  [v1 |-> <<SensorZone("3", "contact", TRUE, TRUE, {"1"}),
            SensorZone("2", "motion", FALSE, FALSE, {"1"}),
            SwitchZone("5", "beeper", UndefS)>>,
   pro |-> <<>>]

\* The inversion scenarios: the V1-V2 panel is discovered and provisioned, it
\* reports its sensors, HomeKit arms and disarms, the entry delay runs
NextInvert ==
  \/ DidFinishLaunching
  \/ SsdpResponse(1, "v1")
  \/ FetchResolved("v1", TRUE)
  \/ PassTimeout
  \/ \E req \in {Request("PUT", "v1", Bearer(1), pin, "", st) : pin \in {2, 5}, st \in {0, 1}} :
       RespondUpdate(req)
  \/ \E v \in 0..3 : SetTarget(v)
  \/ EntryDelayExpires

SpecInvert ==
  /\ InitWith(InvertConfig, {FactorySettings})
  /\ [][NextInvert]_vars

\* C36: a step that handles a callback for a binary zone whose accessory
\* Homebridge restored starts no entry-delay timer and sends no command when
\* it stores 0 in the record of the zone, and starts the timer when it stores
\* 1, the zone is triggerable in the current state of the security system and
\* no timer was started since the last disarm; inverted or not.
ActiveStateIsEvaluated ==
  [][(/\ request'.method \in {"PUT", "POST"} /\ response'.status = 200
      /\ <<request'.id, RequestZone(request')>> \in DOMAIN accessories
      /\ RequestRecord(accessoriesRuntimeCache, request') # 0) =>
       LET i == RequestRecord(accessoriesRuntimeCache, request')
           rec == accessoriesRuntimeCache[i]
           new == accessoriesRuntimeCache'[i]
       IN rec.type \in SensorTypes =>
            /\ new.state = "n0" =>
                 /\ "timer started" \notin events'
                 /\ entryTimers' = entryTimers
                 /\ sent' = <<>>
            /\ (/\ new.state = "n1"
                /\ StringOf(ssState) \in rec.triggerableModes
                /\ entryTriggerDelayTimerHandle = "undefined") =>
                 "timer started" \in events']_vars

\* The configuration of the actuator scenarios: on the Pro panel a contact
\* sensor on zone 3 triggerable in Away, a beeper on zone 1, a siren on
\* alarm1, a strobe on out1 and a switch on alarm2_out2, none with a trigger
\* setting
ActuatorConfig ==
  [v1 |-> <<>>,
   pro |-> <<SensorZone("3", "contact", FALSE, FALSE, {"1"}),
             SwitchZone("1", "beeper", UndefS),
             SwitchZone("alarm1", "siren", UndefS),
             SwitchZone("out1", "strobe", UndefS),
             SwitchZone("alarm2_out2", "switch", UndefS)>>]

\* The actuator scenarios: the Pro panel is discovered and provisioned, it
\* reports its sensor, HomeKit arms and disarms, the entry delay runs
NextActuators ==
  \/ DidFinishLaunching
  \/ SsdpResponse(1, "pro")
  \/ FetchResolved("pro", TRUE)
  \/ PassTimeout
  \/ \E req \in {Request("POST", "pro", Bearer(1), NoNum, "3", st) : st \in {0, 1}} :
       RespondUpdate(req)
  \/ \E v \in 0..3 : SetTarget(v)
  \/ EntryDelayExpires

SpecActuators ==
  /\ InitWith(ActuatorConfig, {FactorySettings})
  /\ [][NextActuators]_vars

\* the zones of a Pro panel that can drive an actuator
ActuatorCapableZones ==
  {"1", "2", "3", "4", "5", "6", "7", "8", "alarm1", "out1", "alarm2_out2"}

\* the zones the actuators array of a settings payload names
ActuatorZones(pl) == {pl.actuators[j].zone : j \in 1..Len(pl.actuators)}

\* C37: every settings payload sent to a Pro panel has in its actuators
\* array an element for every enabled beeper, siren, strobe or switch zone of
\* the panel that is assigned to zone 1-8, alarm1, out1 or alarm2_out2; and
\* every command sent when the security system becomes Triggered goes to a
\* zone of the actuators array of the last payload of its panel.
ProActuatorsCompiled ==
  /\ \A i \in 1..Len(provisioned) :
       LET pl == provisioned[i]
           zones == config[pl.panel]
       IN PanelObject(pl.panel).model =>
            \A k \in 1..Len(zones) :
              (/\ zones[k].enabled = "true"
               /\ zones[k].zoneType \in ActuatorTypes
               /\ zones[k].zoneNumber \in ActuatorCapableZones)
                => zones[k].zoneNumber \in ActuatorZones(pl)
  /\ "timer fired" \in events =>
       \A j \in 1..Len(sent) :
         (sent[j].panel = "pro" /\ provisioned # <<>>)
           => sent[j].zone \in ActuatorZones(provisioned[Len(provisioned)])

\* The configuration of the pin scenarios: a contact sensor on every zone of
\* the V1-V2 panel, 1 to 6 and out
PinConfig ==
  [v1 |-> <<SensorZone("1", "contact", FALSE, FALSE, {}),
            SensorZone("2", "contact", FALSE, FALSE, {}),
            SensorZone("3", "contact", FALSE, FALSE, {}),
            SensorZone("4", "contact", FALSE, FALSE, {}),
            SensorZone("5", "contact", FALSE, FALSE, {}),
            SensorZone("6", "contact", FALSE, FALSE, {}),
            SensorZone("out", "contact", FALSE, FALSE, {})>>,
   pro |-> <<>>]

\* The pin scenarios: the V1-V2 panel is discovered and provisioned and
\* reports its pins
NextPins ==
  \/ DidFinishLaunching
  \/ SsdpResponse(1, "v1")
  \/ FetchResolved("v1", TRUE)
  \/ PassTimeout
  \/ \E req \in {Request("PUT", "v1", Bearer(1), pin, "", st) : pin \in 1..9, st \in {0, 1}} :
       RespondUpdate(req)

SpecPins ==
  /\ InitWith(PinConfig, {FactorySettings})
  /\ [][NextPins]_vars

\* C38: every zone of a V1-V2 panel has a pin and no two zones have the same
\* one; the zone a pin is resolved to is the zone the pin belongs to; and a
\* step that handles a callback carrying the pin of a zone changes the records
\* of that zone only, and stores the reported state in them when Homebridge
\* restored the accessory of the zone.
PinResolutionIsInverse ==
  [][/\ \A z \in V1ZoneNames :
          ZONES_TO_PINS(z) # NoNum /\ ZoneOfPin(ZONES_TO_PINS(z)) = z
     /\ \A y, z \in V1ZoneNames : ZONES_TO_PINS(y) = ZONES_TO_PINS(z) => y = z
     /\ \A z \in V1ZoneNames :
          (/\ request'.method = "PUT" /\ response'.status = 200
           /\ request'.pin = ZONES_TO_PINS(z)) =>
            \A k \in 1..Len(accessoriesRuntimeCache) :
              LET rec == accessoriesRuntimeCache[k]
                  new == accessoriesRuntimeCache'[k]
              IN /\ new # rec => rec.UUID = <<request'.id, z>>
                 /\ (rec.UUID = <<request'.id, z>> /\ rec.UUID \in DOMAIN accessories)
                      => new.state = NumState(request'.state)]_vars

\* the callback with pin 9 was handled and zone 6 is the one zone that is
\* active
Pin9ReachedZone6 ==
  /\ request.pin = 9 /\ request.state = 1 /\ response.status = 200
  /\ Len(accessoriesRuntimeCache) = 7
  /\ \A k \in 1..Len(accessoriesRuntimeCache) :
       accessoriesRuntimeCache[k].state = "n1" <=> accessoriesRuntimeCache[k].zoneNumber = "6"

====
